---- MODULE Spec2Model ----
(***************************************************************************)
(* A model of the Namecheap registrar client of mcp-domain-checker        *)
(* (package namecheap): construction, the DomainsCheck call path with its *)
(* HTTP exchange, and the mapping of raw DomainCheckResult records to     *)
(* Result values.                                                         *)
(*                                                                         *)
(* Representation of Go strings.  A string that the code only compares or *)
(* copies (Domain, Available, IsPremiumName, ErrorNo, Description, Status,*)
(* error messages, credentials) is a TLA+ string.  A string that the code *)
(* parses is a sequence of tokens: the numeric attributes are sequences   *)
(* of one-character strings, URLs and query strings are sequences of      *)
(* lexical tokens (scheme word, ":", "//", host, path, "?", ...).         *)
(***************************************************************************)
EXTENDS Integers, Sequences, FiniteSets, TLC

VARIABLES
    ctorConfig,   \* the Config passed to NewNamecheapTool
    service,      \* the *Service returned by NewNamecheapTool (constructed, config)
    ctorErr,      \* the error returned by NewNamecheapTool ("" is nil)
    pc,           \* position of the current DomainsCheck invocation
    domains,      \* argument of the current invocation
    reqURL,       \* checkDomains' reqURL (token sequence)
    resp,         \* the *http.Response of client.Do
    apiResp,      \* checkDomains' decoded APIResponse
    results,      \* returned []Result
    resultsNil,   \* TRUE when the returned slice is nil
    err,          \* returned error
    httpCount,    \* HTTP GETs put on the wire by the current invocation
    bodyOpen,     \* resp.Body is open
    closeCount,   \* calls of resp.Body.Close by the current invocation
    stages,       \* the stages the current invocation has run, in order
    floatCall,    \* a direct call of ParseFloat: its argument and what it returned
    urlCall,      \* a direct call of buildRequestURL: its arguments and what it returned
    toolCall,     \* an invocation of Tool.Handler: its position, locals and return values
    handlers,     \* concurrent invocations of Tool.Handler on the Tool of toolCall
    checks,       \* concurrent invocations of DomainsCheck on the Service of service
    corsCall,     \* a request served by the handler that corsMiddleware returns
    mcpServer     \* main's cfg and the tools added to the MCP server by setupTools

\* the variables of concurrent invocations and of package main
otherVars == <<handlers, checks, corsCall, mcpServer>>

\* the variables of the calls made outside a DomainsCheck invocation
callVars == <<floatCall, urlCall, toolCall, otherVars>>

vars == <<ctorConfig, service, ctorErr, pc, domains, reqURL, resp, apiResp, results,
          resultsNil, err, httpCount, bodyOpen, closeCount, stages, callVars>>

-----------------------------------------------------------------------------
(* Bounds of the model.                                                    *)

\* longest domain list enumerated element by element
MaxShortList == 2
\* most DomainCheckResult records in a response built from CoreRecords
MaxRecords == 2
\* most Errors/Error entries in a response
MaxErrors == 2

-----------------------------------------------------------------------------
(* Program constants.                                                      *)

maxDomainsPerCheck == 50
httpTimeoutSeconds == 30

ErrMissingDomains == "missing domains to check"
ErrMissingAPICredentials == "missing API credentials"
ErrAPIError == "API error"
ErrMaxDomainsExceeded == "max of 50 domains are allowed in a single check command"

-----------------------------------------------------------------------------
(* Errors.  A Go error is modelled by the sentinel it wraps (errors.Is),   *)
(* the prefix fmt.Errorf puts before the wrapped text, and the wrapped     *)
(* text itself.                                                            *)

NoError == [is |-> "", prefix |-> "", msg |-> ""]

Sentinel(e) == [is |-> e, prefix |-> "", msg |-> e]

\* fmt.Errorf(prefix + ": %w", cause)
Wrap(prefix, cause) == [is |-> cause.is, prefix |-> prefix, msg |-> cause.msg]

\* fmt.Errorf("%w: %s", sentinel, text)
WrapMsg(sentinel, text) == [is |-> sentinel, prefix |-> sentinel, msg |-> text]

-----------------------------------------------------------------------------
(* float64 values: finite decimals in sign-magnitude form (neg, m, e)      *)
(* standing for (-1)^neg * m * 10^e with m not divisible by 10 (e = 0 when *)
(* m = 0), plus the infinities and NaN.                                    *)

Fin(neg, m, e) == [kind |-> "fin", neg |-> neg, m |-> m, e |-> e]
Inf(neg) == [kind |-> "inf", neg |-> neg, m |-> 0, e |-> 0]
NaN == [kind |-> "nan", neg |-> FALSE, m |-> 0, e |-> 0]
Zero == Fin(FALSE, 0, 0)

RECURSIVE Normalize(_, _, _)
Normalize(neg, m, e) ==
    IF m = 0 THEN Fin(neg, 0, 0)
    ELSE IF m % 10 = 0 THEN Normalize(neg, m \div 10, e + 1)
    ELSE Fin(neg, m, e)

-----------------------------------------------------------------------------
(* strconv.ParseFloat(s, 64) on a sequence of characters, for decimal      *)
(* input: an optional sign, digits with at most one ".", at least one      *)
(* digit, an optional exponent, or one of the special words inf, infinity, *)
(* nan (any case, nan unsigned); the whole string must be consumed.        *)
(* Hexadecimal literals and "_" separators are outside the alphabet the    *)
(* model feeds it, and so is a value beyond the float64 range.  The result *)
(* is [ok, v]: ok is FALSE where Go returns a non-nil error.               *)

Digit == {"0", "1", "2", "3", "4", "5", "6", "7", "8", "9"}

DigitVal(c) ==
    CASE c = "0" -> 0 [] c = "1" -> 1 [] c = "2" -> 2 [] c = "3" -> 3
      [] c = "4" -> 4 [] c = "5" -> 5 [] c = "6" -> 6 [] c = "7" -> 7
      [] c = "8" -> 8 [] c = "9" -> 9

\* lower(c) for the letters of the special words
Lower(c) ==
    CASE c = "I" -> "i" [] c = "N" -> "n" [] c = "F" -> "f" [] c = "A" -> "a"
      [] c = "T" -> "t" [] c = "Y" -> "y" [] c = "E" -> "e"
      [] OTHER -> c

LowerSeq(s) == [i \in 1..Len(s) |-> Lower(s[i])]

\* s[i..] (1-based), empty when i is past the end
Drop(s, i) == IF i > Len(s) THEN <<>> ELSE SubSeq(s, i, Len(s))

\* first index >= i whose character is not a digit, Len(s)+1 when none
RECURSIVE ScanDigits(_, _)
ScanDigits(s, i) ==
    IF i <= Len(s) /\ s[i] \in Digit THEN ScanDigits(s, i + 1) ELSE i

\* the number written by the digits of s[i..j-1], skipping "."
RECURSIVE DigitsValue(_, _, _, _)
DigitsValue(s, i, j, acc) ==
    IF i >= j THEN acc
    ELSE IF s[i] = "." THEN DigitsValue(s, i + 1, j, acc)
    ELSE DigitsValue(s, i + 1, j, acc * 10 + DigitVal(s[i]))

\* strconv.special: the words inf, infinity (signed) and nan (unsigned)
special(s) ==
    LET signed == Len(s) > 0 /\ s[1] \in {"+", "-"}
        neg    == Len(s) > 0 /\ s[1] = "-"
        body   == LowerSeq(IF signed THEN Drop(s, 2) ELSE s)
    IN  IF body = <<"i", "n", "f">> \/ body = <<"i", "n", "f", "i", "n", "i", "t", "y">>
        THEN [ok |-> TRUE, v |-> Inf(neg)]
        ELSE IF ~signed /\ body = <<"n", "a", "n">>
        THEN [ok |-> TRUE, v |-> NaN]
        ELSE [ok |-> FALSE, v |-> Zero]

\* strconv.readFloat and the conversion of its mantissa and exponent
readFloat(s) ==
    LET signed  == Len(s) > 0 /\ s[1] \in {"+", "-"}
        neg     == Len(s) > 0 /\ s[1] = "-"
        i0      == IF signed THEN 2 ELSE 1
        i1      == ScanDigits(s, i0)
        sawdot  == i1 <= Len(s) /\ s[i1] = "."
        i2      == IF sawdot THEN ScanDigits(s, i1 + 1) ELSE i1
        nd      == (i1 - i0) + (IF sawdot THEN i2 - (i1 + 1) ELSE 0)
        frac    == IF sawdot THEN i2 - (i1 + 1) ELSE 0
        hasExp  == i2 <= Len(s) /\ Lower(s[i2]) = "e"
        j0      == i2 + 1
        esigned == j0 <= Len(s) /\ s[j0] \in {"+", "-"}
        eneg    == j0 <= Len(s) /\ s[j0] = "-"
        j1      == IF esigned THEN j0 + 1 ELSE j0
        j2      == ScanDigits(s, j1)
        expOK   == j2 > j1
        expVal  == DigitsValue(s, j1, j2, 0)
        exp     == IF hasExp THEN (IF eneg THEN 0 - expVal ELSE expVal) ELSE 0
        end     == IF hasExp THEN j2 ELSE i2
        mant    == DigitsValue(s, i0, i2, 0)
    IN  IF nd = 0 \/ (hasExp /\ ~expOK) \/ end /= Len(s) + 1
        THEN [ok |-> FALSE, v |-> Zero]
        ELSE [ok |-> TRUE, v |-> Normalize(neg, mant, exp - frac)]

strconvParseFloat(s) ==
    IF special(s).ok THEN special(s) ELSE readFloat(s)

\* mutant: the empty string is handed to strconv.ParseFloat like any other
ParseFloat_noEmptyCase(s) == strconvParseFloat(s)

\* ParseFloat: the empty string is 0 with no error
ParseFloat(s) ==
    IF s = <<>> THEN [ok |-> TRUE, v |-> Zero] ELSE strconvParseFloat(s)


-----------------------------------------------------------------------------
(* Result mapping (parseResults).                                          *)

\* mutant: the flags are compared without regard to case
NewResult_anyCase(domainResult) ==
    [Domain                   |-> domainResult.Domain,
     Available                |-> domainResult.Available \in {"true", "True", "TRUE"},
     IsPremiumName            |-> domainResult.IsPremiumName \in {"true", "True", "TRUE"},
     PremiumRegistrationPrice |-> Zero,
     PremiumRenewalPrice      |-> Zero,
     IcannFee                 |-> Zero,
     EapFee                   |-> Zero,
     Error                    |-> ""]

\* the zero Result with the three fields the composite literal sets
NewResult(domainResult) ==
    [Domain                   |-> domainResult.Domain,
     Available                |-> domainResult.Available = "true",
     IsPremiumName            |-> domainResult.IsPremiumName = "true",
     PremiumRegistrationPrice |-> Zero,
     PremiumRenewalPrice      |-> Zero,
     IcannFee                 |-> Zero,
     EapFee                   |-> Zero,
     Error                    |-> ""]

\* mutant: the description is copied whatever the error number
SetError_always(result, domainResult) ==
    [result EXCEPT !.Error = domainResult.Description]

\* if domainResult.ErrorNo != "0" && domainResult.Description != ""
SetError(result, domainResult) ==
    IF domainResult.ErrorNo /= "0" /\ domainResult.Description /= ""
    THEN [result EXCEPT !.Error = domainResult.Description]
    ELSE result

\* one "x, err := ParseFloat(attr); if err == nil { field = x }"
ParsedOr(attr, old) ==
    IF ParseFloat(attr).ok THEN ParseFloat(attr).v ELSE old

\* mutant: the premium prices are parsed whatever the premium flag
SetPremiumPrices_always(result, domainResult) ==
    [result EXCEPT
        !.PremiumRegistrationPrice =
            ParsedOr(domainResult.PremiumRegistrationPrice, @),
        !.PremiumRenewalPrice =
            ParsedOr(domainResult.PremiumRenewalPrice, @)]

\* if result.IsPremiumName { ... both premium prices ... }
SetPremiumPrices(result, domainResult) ==
    IF result.IsPremiumName
    THEN [result EXCEPT
            !.PremiumRegistrationPrice =
                ParsedOr(domainResult.PremiumRegistrationPrice, @),
            !.PremiumRenewalPrice =
                ParsedOr(domainResult.PremiumRenewalPrice, @)]
    ELSE result

\* mutant: a fee that fails to parse ends the mapping of the record's fees
SetFees_stopAtFailure(result, domainResult) ==
    IF ~ParseFloat(domainResult.IcannFee).ok THEN result
    ELSE [result EXCEPT !.IcannFee = ParsedOr(domainResult.IcannFee, @),
                        !.EapFee   = ParsedOr(domainResult.EapFee, @)]

\* mutant: the fees are parsed for premium names only
SetFees_onlyPremium(result, domainResult) ==
    IF result.IsPremiumName
    THEN [result EXCEPT !.IcannFee = ParsedOr(domainResult.IcannFee, @),
                        !.EapFee   = ParsedOr(domainResult.EapFee, @)]
    ELSE result

\* the IcannFee and EapFee blocks
SetFees(result, domainResult) ==
    [result EXCEPT !.IcannFee = ParsedOr(domainResult.IcannFee, @),
                   !.EapFee   = ParsedOr(domainResult.EapFee, @)]

\* the body of the for loop: one raw record to one Result
parseOne(domainResult) ==
    SetFees(SetPremiumPrices(SetError(NewResult(domainResult), domainResult),
                             domainResult),
            domainResult)

\* for _, domainResult := range domainResults { results = append(results, ...) }
RECURSIVE parseLoop(_, _, _)
parseLoop(domainResults, i, acc) ==
    IF i > Len(domainResults) THEN acc
    ELSE parseLoop(domainResults, i + 1, Append(acc, parseOne(domainResults[i])))

\* mutant: a record with a per-domain error is skipped
parseResults_skipErrors(domainResults) ==
    SelectSeq(parseLoop(domainResults, 1, <<>>), LAMBDA r : r.Error = "")

parseResults(domainResults) == parseLoop(domainResults, 1, <<>>)


-----------------------------------------------------------------------------
(* The registrar's XML as it arrives, and its decoding (encoding/xml).     *)
(* A DomainCheckResult element carries the set of attributes it has and    *)
(* their values; an attribute the element lacks decodes to the empty       *)
(* string.                                                                 *)

AttrNames == {"Domain", "Available", "IsPremiumName", "PremiumRegistrationPrice",
              "PremiumRenewalPrice", "IcannFee", "EapFee", "ErrorNo", "Description"}

\* numeric attributes are character sequences
NumericAttrs == {"PremiumRegistrationPrice", "PremiumRenewalPrice", "IcannFee", "EapFee"}

Attr(el, a) ==
    IF a \in el.has THEN el.val[a]
    ELSE IF a \in NumericAttrs THEN <<>> ELSE ""

\* struct DomainCheckResult filled from one element
DecodeRecord(el) ==
    [Domain                   |-> Attr(el, "Domain"),
     Available                |-> Attr(el, "Available"),
     IsPremiumName            |-> Attr(el, "IsPremiumName"),
     PremiumRegistrationPrice |-> Attr(el, "PremiumRegistrationPrice"),
     PremiumRenewalPrice      |-> Attr(el, "PremiumRenewalPrice"),
     IcannFee                 |-> Attr(el, "IcannFee"),
     EapFee                   |-> Attr(el, "EapFee"),
     ErrorNo                  |-> Attr(el, "ErrorNo"),
     Description              |-> Attr(el, "Description")]

\* struct APIResponse filled from the document
DecodeEnvelope(doc) ==
    [Status |-> IF doc.hasStatus THEN doc.Status ELSE "",
     Errors |-> doc.Errors,
     DomainCheckResults |->
        [i \in 1..Len(doc.Records) |-> DecodeRecord(doc.Records[i])]]

ZeroAPIResponse == [Status |-> "", Errors |-> <<>>, DomainCheckResults |-> <<>>]

\* mutant: a body that cannot be decoded leaves the zero APIResponse, no error
Decode_lenient(body) ==
    IF body.kind /= "xml" \/ body.doc.root /= "ApiResponse"
    THEN [ok |-> TRUE, cause |-> "", apiResp |-> ZeroAPIResponse]
    ELSE [ok |-> TRUE, cause |-> "", apiResp |-> DecodeEnvelope(body.doc)]

\* decoder.Decode(&apiResp): the body must be well-formed XML whose root
\* element is ApiResponse
Decode(body) ==
    IF body.kind /= "xml"
    THEN [ok |-> FALSE, cause |-> "XML syntax error", apiResp |-> ZeroAPIResponse]
    ELSE IF body.doc.root /= "ApiResponse"
    THEN [ok |-> FALSE, cause |-> "expected element type <ApiResponse>",
          apiResp |-> ZeroAPIResponse]
    ELSE [ok |-> TRUE, cause |-> "", apiResp |-> DecodeEnvelope(body.doc)]

-----------------------------------------------------------------------------
(* The inputs the model draws from.                                        *)

Domains == {"example.com", "example.org"}

\* sequences over S of length 0..n
SeqUpTo(S, n) == UNION {[1..k -> S] : k \in 0..n}

\* the lengths around the limit, as lists of one repeated domain
LongLengths == {maxDomainsPerCheck,
                maxDomainsPerCheck + 1, maxDomainsPerCheck + 2}

DomainLists ==
    SeqUpTo(Domains, MaxShortList)
        \cup {[i \in 1..n |-> "example.com"] : n \in LongLengths}

AvailableTokens == {"true", "false", "True", "1", ""}
PremiumTokens == {"true", "false", "TRUE", ""}

NumStrings ==
    { <<>>,
      <<"0">>,
      <<"1", "0", "0">>,
      <<"1", "0", ".", "5">>,
      <<"0", ".", "0", "1">>,
      <<"-", "1", "0", ".", "5">>,
      <<"i", "n", "v", "a", "l", "i", "d">>,
      <<"1", "0", ".", "5", "a", "b", "c">>,
      <<"N", "a", "N">> }

ErrorNos == {"0", "1", "00", ""}
Descriptions == {"", "Domain check failed"}

BaseValues ==
    [Domain                   |-> "example.com",
     Available                |-> "true",
     IsPremiumName            |-> "false",
     PremiumRegistrationPrice |-> <<>>,
     PremiumRenewalPrice      |-> <<>>,
     IcannFee                 |-> <<>>,
     EapFee                   |-> <<>>,
     ErrorNo                  |-> "0",
     Description              |-> ""]

Element(values) == [has |-> AttrNames, val |-> values]

\* elements that vary a few attributes of the base element at a time
FlagElements ==
    {Element([BaseValues EXCEPT !.Available = a, !.IsPremiumName = p, !.Domain = d]) :
        a \in AvailableTokens, p \in PremiumTokens, d \in Domains}

PriceElements ==
    {Element([BaseValues EXCEPT !.IsPremiumName = p,
                                !.PremiumRegistrationPrice = x,
                                !.PremiumRenewalPrice = y]) :
        p \in PremiumTokens, x \in NumStrings, y \in NumStrings}

FeeElements ==
    {Element([BaseValues EXCEPT !.IsPremiumName = p, !.IcannFee = x, !.EapFee = y]) :
        p \in {"true", "false"}, x \in NumStrings, y \in NumStrings}

ErrorElements ==
    {Element([BaseValues EXCEPT !.ErrorNo = n, !.Description = t,
                                !.IsPremiumName = p, !.IcannFee = x]) :
        n \in ErrorNos, t \in Descriptions, p \in {"true", "false"},
        x \in {<<>>, <<"0", ".", "1", "8">>}}

\* an element whose attributes are all non-empty
FullValues ==
    [Domain                   |-> "premium.io",
     Available                |-> "true",
     IsPremiumName            |-> "true",
     PremiumRegistrationPrice |-> <<"1", "0", "0">>,
     PremiumRenewalPrice      |-> <<"1", "0", ".", "5">>,
     IcannFee                 |-> <<"0", ".", "1", "8">>,
     EapFee                   |-> <<"0", ".", "0", "1">>,
     ErrorNo                  |-> "1",
     Description              |-> "Domain check failed"]

\* the value the model stores for an attribute the element lacks
Absent(a) == IF a \in NumericAttrs THEN <<>> ELSE ""

\* elements lacking attributes: the full element less one attribute, and the
\* element that has a Domain only
SparseElements ==
    {[has |-> AttrNames \ {a}, val |-> [FullValues EXCEPT ![a] = Absent(a)]] :
        a \in AttrNames}
    \cup {[has |-> {"Domain"},
           val |-> [BaseValues EXCEPT !.Domain = "example.org", !.Available = "",
                                      !.IsPremiumName = "", !.ErrorNo = ""]]}

RichElements ==
    FlagElements \cup PriceElements \cup FeeElements \cup ErrorElements
        \cup SparseElements

\* the elements that responses of several records are built from
CoreElements ==
    { Element(BaseValues),
      Element([BaseValues EXCEPT !.Domain = "example.org", !.Available = "false",
                                 !.ErrorNo = "1",
                                 !.Description = "Domain check failed"]),
      Element([BaseValues EXCEPT !.Domain = "premium.io", !.IsPremiumName = "true",
                                 !.PremiumRegistrationPrice = <<"1", "0", ".", "5">>,
                                 !.PremiumRenewalPrice =
                                     <<"i", "n", "v", "a", "l", "i", "d">>,
                                 !.IcannFee = <<"0", ".", "0", "1">>]) }

RecordLists ==
    SeqUpTo(CoreElements, MaxRecords) \cup {<<el>> : el \in RichElements}

ErrorEntries ==
    { [Number |-> "1011102", Message |-> "API Key is invalid or API access has not been enabled"],
      [Number |-> "2030280", Message |-> "TLD is not supported in API"] }

Document(root, hasStatus, status, errors, records) ==
    [root |-> root, hasStatus |-> hasStatus, Status |-> status,
     Errors |-> errors, Records |-> records]

\* well-formed ApiResponse documents: every record list under Status "OK",
\* and every status with every error list over short record lists
Documents ==
    {Document("ApiResponse", TRUE, "OK", <<>>, r) : r \in RecordLists}
    \cup {Document("ApiResponse", TRUE, st, e, r) :
            st \in {"OK", "ERROR", "ok"}, e \in SeqUpTo(ErrorEntries, MaxErrors),
            r \in SeqUpTo(CoreElements, 1)}
    \cup {Document("ApiResponse", FALSE, "", e, r) :
            e \in SeqUpTo(ErrorEntries, 1), r \in SeqUpTo(CoreElements, 1)}
    \cup {Document("html", FALSE, "", <<>>, <<>>)}

EmptyDocument == Document("", FALSE, "", <<>>, <<>>)

Bodies ==
    {[kind |-> "xml", doc |-> d] : d \in Documents}
    \cup {[kind |-> "malformed", doc |-> EmptyDocument],
          [kind |-> "empty", doc |-> EmptyDocument]}

StatusCodes == {200, 500}

Responses == [StatusCode : StatusCodes, Body : Bodies]

NoResponse == [StatusCode |-> 0, Body |-> [kind |-> "none", doc |-> EmptyDocument]]


-----------------------------------------------------------------------------
(* URLs (net/url) on token sequences.  The tokens are ":", "//", "?", "=", *)
(* "&", ",", scheme words, host names and path segments starting with "/". *)

SchemeWords == {"http", "https"}
SlashTokens == {"//", "/", "/xml.response"}

ProductionEndpoint == <<"https", ":", "//", "api.namecheap.com", "/xml.response">>
SandboxEndpoint == <<"https", ":", "//", "api.sandbox.namecheap.com", "/xml.response">>
SchemelessEndpoint == <<"api.namecheap.com", "/xml.response">>
InvalidEndpoint == <<":", "//", "invalid">>

Endpoints == {<<>>, ProductionEndpoint, SandboxEndpoint, SchemelessEndpoint,
              InvalidEndpoint}

ZeroURL == [Scheme |-> "", Opaque |-> <<>>, Host |-> "", Path |-> <<>>,
            RawQuery |-> <<>>]

\* index of the first "?" token, 0 when there is none
RECURSIVE IndexOf(_, _, _)
IndexOf(ts, t, i) ==
    IF i > Len(ts) THEN 0
    ELSE IF ts[i] = t THEN i ELSE IndexOf(ts, t, i + 1)

\* url.Parse: getScheme, the cut at "?", the authority after "//", the path
urlParse(rawURL) ==
    IF Len(rawURL) > 0 /\ rawURL[1] = ":"
    THEN [ok |-> FALSE, cause |-> "missing protocol scheme", url |-> ZeroURL]
    ELSE
      LET hasScheme == Len(rawURL) >= 2 /\ rawURL[1] \in SchemeWords /\ rawURL[2] = ":"
          scheme    == IF hasScheme THEN rawURL[1] ELSE ""
          afterS    == IF hasScheme THEN Drop(rawURL, 3) ELSE rawURL
          q         == IndexOf(afterS, "?", 1)
          rest      == IF q = 0 THEN afterS ELSE SubSeq(afterS, 1, q - 1)
          rawQuery  == IF q = 0 THEN <<>> ELSE Drop(afterS, q + 1)
          rooted    == Len(rest) > 0 /\ rest[1] \in SlashTokens
          authority == Len(rest) > 0 /\ rest[1] = "//"
          host      == IF authority /\ Len(rest) >= 2 /\ rest[2] \notin SlashTokens
                       THEN rest[2] ELSE ""
          path      == IF authority
                       THEN Drop(rest, IF host = "" THEN 2 ELSE 3)
                       ELSE rest
      IN  IF ~rooted /\ scheme /= ""
          THEN [ok |-> TRUE, cause |-> "",
                url |-> [ZeroURL EXCEPT !.Scheme = scheme, !.Opaque = rest,
                                        !.RawQuery = rawQuery]]
          ELSE IF ~rooted /\ IndexOf(rest, ":", 1) /= 0
                  /\ (IndexOf(rest, "/", 1) = 0
                      \/ IndexOf(rest, ":", 1) < IndexOf(rest, "/", 1))
          THEN [ok |-> FALSE, cause |-> "first path segment in URL cannot contain colon",
                url |-> ZeroURL]
          ELSE [ok |-> TRUE, cause |-> "",
                url |-> [Scheme |-> scheme, Opaque |-> <<>>, Host |-> host,
                         Path |-> path, RawQuery |-> rawQuery]]

\* (*URL).String
urlString(u) ==
    (IF u.Scheme /= "" THEN <<u.Scheme, ":">> ELSE <<>>)
    \o (IF u.Opaque /= <<>> THEN u.Opaque
        ELSE (IF (u.Scheme /= "" \/ u.Host /= "") /\ (u.Host /= "" \/ u.Path /= <<>>)
              THEN <<"//">> ELSE <<>>)
             \o (IF u.Host /= "" THEN <<u.Host>> ELSE <<>>)
             \o u.Path)
    \o (IF u.RawQuery /= <<>> THEN <<"?">> \o u.RawQuery ELSE <<>>)

\* url.QueryEscape of one token: "," is %2C, "&" is %26, "=" is %3D and "%"
\* is %25; the other tokens of the model consist of unreserved characters
escapeToken(t) ==
    CASE t = ","     -> "%2C"
      [] t = "a&b=c" -> "a%26b%3Dc"
      [] t = "%2C"   -> "%252C"
      [] OTHER       -> t

\* mutant: only the comma is escaped
QueryEscape_commaOnly(ts) ==
    [i \in 1..Len(ts) |-> IF ts[i] = "," THEN "%2C" ELSE ts[i]]

\* url.QueryEscape, token by token
QueryEscape(ts) == [i \in 1..Len(ts) |-> escapeToken(ts[i])]

\* the tokens a reader of the query string sees in the text of one token:
\* "&" and "=" inside it are separators like any other
tokens(t) ==
    IF t = "a&b=c" THEN <<"a", "&", "b", "=", "c">> ELSE <<t>>

\* the query string as it is read back, token by token
RECURSIVE Relex(_, _)
Relex(ts, i) ==
    IF i > Len(ts) THEN <<>> ELSE tokens(ts[i]) \o Relex(ts, i + 1)

\* url.QueryUnescape of one token
unescapeToken(t) ==
    CASE t = "%2C"       -> ","
      [] t = "a%26b%3Dc" -> "a&b=c"
      [] t = "%252C"     -> "%2C"
      [] OTHER           -> t

\* url.QueryUnescape, token by token
QueryUnescape(ts) == [i \in 1..Len(ts) |-> unescapeToken(ts[i])]

\* url.ParseQuery(query).Get(key): the query is cut at "&", each part at its
\* first "=", key and value are unescaped; the value of the first part with
\* the key, the empty string when there is none
RECURSIVE QueryGet(_, _)
QueryGet(query, key) ==
    IF query = <<>> THEN <<>>
    ELSE
      LET amp   == IndexOf(query, "&", 1)
          part  == IF amp = 0 THEN query ELSE SubSeq(query, 1, amp - 1)
          rest  == IF amp = 0 THEN <<>> ELSE Drop(query, amp + 1)
          eq    == IndexOf(part, "=", 1)
          k     == IF eq = 0 THEN part ELSE SubSeq(part, 1, eq - 1)
          value == IF eq = 0 THEN <<>> ELSE Drop(part, eq + 1)
      IN  IF QueryUnescape(k) = <<key>> THEN QueryUnescape(value)
          ELSE QueryGet(rest, key)

\* (*URL).Query().Get(key) on a parsed URL
URLQueryGet(u, key) == QueryGet(Relex(u.RawQuery, 1), key)

\* strings.Join(elems, ",")
RECURSIVE Join(_, _)
Join(elems, i) ==
    IF i > Len(elems) THEN <<>>
    ELSE IF i = Len(elems) THEN <<elems[i]>>
    ELSE <<elems[i], ",">> \o Join(elems, i + 1)

\* one key=value of url.Values.Encode
Param(key, value) == <<key, "=">> \o QueryEscape(value)

\* url.Values.Encode: the six parameters sorted by key
Encode(config, domainList) ==
    Param("ApiKey", <<config.APIKey>>) \o <<"&">>
    \o Param("ApiUser", <<config.APIUser>>) \o <<"&">>
    \o Param("ClientIp", <<config.ClientIP>>) \o <<"&">>
    \o Param("Command", <<"namecheap.domains.check">>) \o <<"&">>
    \o Param("DomainList", domainList) \o <<"&">>
    \o Param("UserName", <<config.UserName>>)

\* mutant: a base URL that fails to parse is taken as the empty URL
buildRequestURL_lenient(config, baseURL, domainList) ==
    [ok |-> TRUE, cause |-> "",
     url |-> urlString([urlParse(baseURL).url EXCEPT
                          !.RawQuery = Encode(config, domainList)])]

\* (n *Service) buildRequestURL(baseURL, domainList)
buildRequestURL(config, baseURL, domainList) ==
    LET parsed == urlParse(baseURL)
    IN  IF ~parsed.ok
        THEN [ok |-> FALSE, cause |-> parsed.cause, url |-> <<>>]
        ELSE [ok |-> TRUE, cause |-> "",
              url |-> urlString([parsed.url EXCEPT
                                   !.RawQuery = Encode(config, domainList)])]

\* what client.Do refuses before it touches the network
DoPrecheck(u) ==
    IF u.Scheme \notin SchemeWords THEN "unsupported protocol scheme"
    ELSE IF u.Host = "" THEN "http: no Host in request URL"
    ELSE ""


-----------------------------------------------------------------------------
(* Configurations.                                                         *)

ZeroConfig == [APIUser |-> "", APIKey |-> "", UserName |-> "", ClientIP |-> "",
               Endpoint |-> <<>>]

Configs ==
    [APIUser : {"", "testuser"}, APIKey : {"", "testkey"},
     UserName : {"", "testusername"}, ClientIP : {"", "192.168.1.1"},
     Endpoint : Endpoints]

\* mutant: the ClientIP test is left out
MissingCredentials_noClientIP(config) ==
    config.APIUser = "" \/ config.APIKey = "" \/ config.UserName = ""

\* the condition of NewNamecheapTool's if statement
MissingCredentials(config) ==
    config.APIUser = "" \/ config.APIKey = "" \/ config.UserName = ""
        \/ config.ClientIP = ""

TransportCauses == {"connection refused", "Client.Timeout exceeded while awaiting headers"}

-----------------------------------------------------------------------------
(* The adapter (package tool): Tool[In, Out] around a Service[In, Out].    *)
(* An Out value is given by its type and its fields: mockOutput has        *)
(* Result, unmarshalableOutput has Channel (TRUE for a channel that was    *)
(* made, FALSE for nil), ParamsOut has Results.  An In value is the        *)
(* sequence of the strings it carries.                                     *)

errServiceError == Sentinel("service error")

OutTypes == {"mockOutput", "unmarshalableOutput", "ParamsOut"}

\* var zero Out
ZeroOut(type) ==
    [type |-> type, Result |-> "", Channel |-> FALSE, Results |-> <<>>,
     ResultsNil |-> TRUE]

MockOut(text) == [ZeroOut("mockOutput") EXCEPT !.Result = text]
ChannelOut == [ZeroOut("unmarshalableOutput") EXCEPT !.Channel = TRUE]
ParamsOut(rs) == [ZeroOut("ParamsOut") EXCEPT !.Results = rs, !.ResultsNil = FALSE]

\* the services a Tool is built around: the two of the package's tests and
\* the Namecheap service
Services ==
    { [name |-> "test", description |-> "test", out |-> "mockOutput"],
      [name |-> "unmarshalable", description |-> "unmarshalable",
       out |-> "unmarshalableOutput"],
      [name |-> "check_availability_namecheap",
       description |-> "Check domain availability using Namecheap API",
       out |-> "ParamsOut"] }

NoService == [name |-> "", description |-> "", out |-> "mockOutput"]

ToolArgs == {<<"test">>, <<"test-input">>, <<"example.com", "example.org">>}

\* the errors a service's Execute returns
ExecuteErrors ==
    { errServiceError,
      Sentinel(ErrMissingDomains),
      WrapMsg(ErrAPIError, "unknown error"),
      Wrap("HTTP request failed", Sentinel("connection refused")) }

\* the outputs a service's Execute returns, by its Out type
ExecuteOutputs(type) ==
    IF type = "mockOutput"
    THEN {MockOut(""), MockOut("success: test-input"), MockOut("processed: test")}
    ELSE IF type = "unmarshalableOutput"
    THEN {ZeroOut(type), ChannelOut}
    ELSE {ZeroOut(type),
          ParamsOut(parseResults(<<DecodeRecord(
              Element([BaseValues EXCEPT !.IcannFee = <<"N", "a", "N">>]))>>))}
         \cup {ParamsOut(parseResults([i \in 1..Len(rs) |-> DecodeRecord(rs[i])])) :
                  rs \in SeqUpTo(CoreElements, MaxRecords)}

\* what Execute returns: any output of the service's type with any error or
\* with none
ExecuteOutcomes(type) ==
    [output : ExecuteOutputs(type), err : ExecuteErrors \cup {NoError}]

\* a float64 encoding/json refuses (UnsupportedValueError)
UnsupportedFloat(x) == x.kind \in {"inf", "nan"}

\* mutant: omitempty compares the bits of the float with those of +0
FloatIsEmpty_bits(x) == x = Zero

\* omitempty on a float64 field: the field is left out when the value is
\* zero, of either sign (isEmptyValue is reflect.Value.IsZero, which for a
\* float is v.Float() == 0 in the Go release of go.mod)
FloatIsEmpty(x) == x.kind = "fin" /\ x.m = 0

\* the keys of the JSON object written for one Result
ResultKeys(r) ==
    {"domain", "available", "isPremiumName"}
    \cup (IF FloatIsEmpty(r.PremiumRegistrationPrice) THEN {}
          ELSE {"premiumRegistrationPrice"})
    \cup (IF FloatIsEmpty(r.PremiumRenewalPrice) THEN {} ELSE {"premiumRenewalPrice"})
    \cup (IF FloatIsEmpty(r.IcannFee) THEN {} ELSE {"icannFee"})
    \cup (IF FloatIsEmpty(r.EapFee) THEN {} ELSE {"eapFee"})
    \cup (IF r.Error = "" THEN {} ELSE {"error"})

\* the floats of a Result that are written
WrittenFloats(r) ==
    {x \in {r.PremiumRegistrationPrice, r.PremiumRenewalPrice, r.IcannFee, r.EapFee} :
        ~FloatIsEmpty(x)}

\* a JSON text by what it holds: the keys of the top-level object, the
\* string under "result", and under "results" null or an array of objects,
\* each with the keys it has and their values
NoJSON == [type |-> "", keys |-> {}, result |-> "", null |-> FALSE, results |-> <<>>]

\* json.Marshal(output): the text is given by the keys and values it writes
jsonMarshal(output) ==
    IF output.type = "unmarshalableOutput"
    THEN [ok |-> FALSE, cause |-> "json: unsupported type: chan int", text |-> NoJSON]
    ELSE IF output.type = "mockOutput"
    THEN [ok |-> TRUE, cause |-> "",
          text |-> [NoJSON EXCEPT !.type = "object", !.keys = {"result"},
                                  !.result = output.Result]]
    ELSE IF \E i \in 1..Len(output.Results) :
                \E x \in WrittenFloats(output.Results[i]) : UnsupportedFloat(x)
    THEN [ok |-> FALSE, cause |-> "json: unsupported value", text |-> NoJSON]
    ELSE [ok |-> TRUE, cause |-> "",
          text |-> [NoJSON EXCEPT
                      !.type = "object",
                      !.keys = {"results"},
                      !.null = output.ResultsNil,
                      !.results = [i \in 1..Len(output.Results) |->
                                     [keys |-> ResultKeys(output.Results[i]),
                                      val  |-> output.Results[i]]]]]

\* the value json.Unmarshal gives a float64 field: the one written under the
\* key, the zero value when the object lacks the key
UnmarshalFloat(obj, key, x) == IF key \in obj.keys THEN x ELSE Zero

\* json.Unmarshal of one object of the array into a Result
UnmarshalResult(obj) ==
    [Domain        |-> IF "domain" \in obj.keys THEN obj.val.Domain ELSE "",
     Available     |-> "available" \in obj.keys /\ obj.val.Available,
     IsPremiumName |-> "isPremiumName" \in obj.keys /\ obj.val.IsPremiumName,
     PremiumRegistrationPrice |->
        UnmarshalFloat(obj, "premiumRegistrationPrice", obj.val.PremiumRegistrationPrice),
     PremiumRenewalPrice |->
        UnmarshalFloat(obj, "premiumRenewalPrice", obj.val.PremiumRenewalPrice),
     IcannFee      |-> UnmarshalFloat(obj, "icannFee", obj.val.IcannFee),
     EapFee        |-> UnmarshalFloat(obj, "eapFee", obj.val.EapFee),
     Error         |-> IF "error" \in obj.keys THEN obj.val.Error ELSE ""]

\* json.Unmarshal(text, &out) for an out of the given type
jsonUnmarshal(text, type) ==
    IF type = "mockOutput"
    THEN [ZeroOut(type) EXCEPT
            !.Result = IF "result" \in text.keys THEN text.result ELSE ""]
    ELSE IF "results" \notin text.keys \/ text.null THEN ZeroOut(type)
    ELSE [ZeroOut(type) EXCEPT
            !.ResultsNil = FALSE,
            !.Results = [i \in 1..Len(text.results) |-> UnmarshalResult(text.results[i])]]

\* a nil *mcp.CallToolResult
NilResult == [nil |-> TRUE, IsError |-> FALSE, Content |-> <<>>]

\* no Tool has been made
NoToolCall ==
    [pc |-> "new", service |-> NoService, args |-> <<>>,
     executeCount |-> 0, executeArgs |-> <<>>,
     executed |-> [output |-> ZeroOut("mockOutput"), err |-> NoError],
     marshalCount |-> 0,
     result |-> NilResult, output |-> ZeroOut("mockOutput"), err |-> NoError]

-----------------------------------------------------------------------------
(* The state machine.                                                      *)

\* no direct call of ParseFloat has been made
NoFloatCall == [called |-> FALSE, value |-> <<>>, ok |-> TRUE, v |-> Zero]

\* no direct call of buildRequestURL has been made
NoURLCall ==
    [called |-> FALSE, config |-> ZeroConfig, baseURL |-> <<>>, domains |-> <<>>,
     ok |-> TRUE, cause |-> "", url |-> <<>>]

\* most invocations in flight at once on one Tool or one Service
MaxInvocations == 2

Invocations == 1..MaxInvocations

\* a Handler invocation that has not started
NoHandlerCall ==
    [pc |-> "idle", args |-> <<>>, executeCount |-> 0, executeArgs |-> <<>>,
     executed |-> [output |-> ZeroOut("mockOutput"), err |-> NoError],
     marshalCount |-> 0,
     result |-> NilResult, output |-> ZeroOut("mockOutput"), err |-> NoError]

\* a DomainsCheck invocation that has not started: its arguments, locals
\* and return values
NoCheck ==
    [pc |-> "idle", domains |-> <<>>, reqURL |-> <<>>, resp |-> NoResponse,
     apiResp |-> ZeroAPIResponse, results |-> <<>>, resultsNil |-> TRUE,
     err |-> NoError, httpCount |-> 0, bodyOpen |-> FALSE, closeCount |-> 0,
     stages |-> <<>>, elapsed |-> 0]

NoHeaders ==
    [AllowOrigin |-> "", AllowMethods |-> "", AllowHeaders |-> "", ExposeHeaders |-> ""]

\* no request has reached the handler of corsMiddleware: the request's
\* method, the ResponseWriter (header map, status written) and the calls of next
NoCorsCall ==
    [pc |-> "idle", method |-> "", nextStatus |-> 0, headers |-> NoHeaders,
     wroteHeader |-> FALSE, status |-> 0, sentHeaders |-> NoHeaders,
     nextCalls |-> 0, log |-> <<>>]

\* main before setupTools: the parsed cfg and the server's tools
NoServer ==
    [pc |-> "main", cfg |-> ZeroConfig, tools |-> <<>>, addToolCalls |-> 0,
     log |-> <<>>, failed |-> FALSE]

OtherInit ==
    /\ handlers = [i \in Invocations |-> NoHandlerCall]
    /\ checks = [i \in Invocations |-> NoCheck]
    /\ corsCall = NoCorsCall
    /\ mcpServer = NoServer

\* the state before construction and before any invocation
ClientInit ==
    /\ ctorConfig = ZeroConfig
    /\ service = [constructed |-> FALSE, config |-> ZeroConfig]
    /\ ctorErr = ""
    /\ pc = "new"
    /\ domains = <<>>
    /\ reqURL = <<>>
    /\ resp = NoResponse
    /\ apiResp = ZeroAPIResponse
    /\ results = <<>>
    /\ resultsNil = TRUE
    /\ err = NoError
    /\ httpCount = 0
    /\ bodyOpen = FALSE
    /\ closeCount = 0
    /\ stages = <<>>

Init ==
    /\ ClientInit
    /\ floatCall = NoFloatCall
    /\ urlCall = NoURLCall
    /\ toolCall = NoToolCall
    /\ OtherInit

\* NewNamecheapTool(logger, config)
NewNamecheapTool(config) ==
    /\ pc = "new"
    /\ ctorConfig' = config
    /\ IF MissingCredentials(config)
       THEN /\ ctorErr' = ErrMissingAPICredentials
            /\ pc' = "noservice"
            /\ UNCHANGED service
       ELSE /\ service' = [constructed |-> TRUE, config |-> config]
            /\ ctorErr' = ""
            /\ pc' = "idle"
    /\ UNCHANGED <<callVars, domains, reqURL, resp, apiResp, results, resultsNil, err,
                   httpCount, bodyOpen, closeCount, stages>>

\* return nil, e
ReturnError(e) ==
    /\ results' = <<>>
    /\ resultsNil' = TRUE
    /\ err' = e
    /\ pc' = "done"

\* mutant: the limit is compared with >= instead of >
ValidateDomains_offByOne(ds) ==
    IF Len(ds) = 0 THEN ErrMissingDomains
    ELSE IF Len(ds) >= maxDomainsPerCheck THEN ErrMaxDomainsExceeded
    ELSE ""

\* mutant: the length checks are left out
ValidateDomains_none(ds) == ""

\* the length checks of DomainsCheck; "" when the list passes
ValidateDomains(ds) ==
    IF Len(ds) = 0 THEN ErrMissingDomains
    ELSE IF Len(ds) > maxDomainsPerCheck THEN ErrMaxDomainsExceeded
    ELSE ""

\* (n *Service) DomainsCheck(domains): a new invocation and its validation
DomainsCheck(ds) ==
    /\ pc \in {"idle", "done"}
    /\ domains' = ds
    /\ reqURL' = <<>>
    /\ resp' = NoResponse
    /\ apiResp' = ZeroAPIResponse
    /\ httpCount' = 0
    /\ bodyOpen' = FALSE
    /\ closeCount' = 0
    /\ stages' = <<"validate">>
    /\ IF ValidateDomains(ds) /= ""
       THEN ReturnError(Sentinel(ValidateDomains(ds)))
       ELSE /\ pc' = "checkDomains"
            /\ results' = <<>>
            /\ resultsNil' = TRUE
            /\ err' = NoError
    /\ UNCHANGED <<callVars, ctorConfig, service, ctorErr>>

\* checkDomains up to http.NewRequestWithContext
BuildRequest ==
    /\ pc = "checkDomains"
    /\ stages' = Append(stages, "build")
    /\ LET built == buildRequestURL(service.config, service.config.Endpoint,
                                    Join(domains, 1))
       IN  IF ~built.ok
           THEN /\ ReturnError(Wrap("failed to build request URL",
                                    Sentinel(built.cause)))
                /\ UNCHANGED reqURL
           ELSE IF ~urlParse(built.url).ok
           THEN /\ ReturnError(Wrap("failed to create request",
                                    Sentinel(urlParse(built.url).cause)))
                /\ reqURL' = built.url
           ELSE /\ reqURL' = built.url
                /\ pc' = "do"
                /\ UNCHANGED <<results, resultsNil, err>>
    /\ UNCHANGED <<callVars, ctorConfig, service, ctorErr, domains, resp, apiResp, httpCount, bodyOpen,
                   closeCount>>

\* client.Do(req): refused locally, or the GET goes on the wire
Do ==
    /\ pc = "do"
    /\ stages' = Append(stages, "http")
    /\ IF DoPrecheck(urlParse(reqURL).url) /= ""
       THEN /\ ReturnError(Wrap("HTTP request failed",
                                Sentinel(DoPrecheck(urlParse(reqURL).url))))
            /\ UNCHANGED httpCount
       ELSE /\ httpCount' = httpCount + 1
            /\ pc' = "wire"
            /\ UNCHANGED <<results, resultsNil, err>>
    /\ UNCHANGED <<callVars, ctorConfig, service, ctorErr, domains, reqURL, resp, apiResp, bodyOpen,
                   closeCount>>

\* client.Do returns a response: any status code, any body
RoundTripResponse(r) ==
    /\ pc = "wire"
    /\ resp' = r
    /\ bodyOpen' = TRUE
    /\ pc' = "decode"
    /\ UNCHANGED <<callVars, ctorConfig, service, ctorErr, domains, reqURL, apiResp, results, resultsNil,
                   err, httpCount, closeCount, stages>>

\* mutant: a failed round trip is tried again
RoundTripError_retry(cause) ==
    /\ pc = "wire"
    /\ pc' = "do"
    /\ UNCHANGED <<callVars, ctorConfig, service, ctorErr, domains, reqURL, resp, apiResp,
                   results, resultsNil, err, httpCount, bodyOpen, closeCount, stages>>

\* client.Do returns an error: connection failure or the 30 s timeout
RoundTripError(cause) ==
    /\ pc = "wire"
    /\ ReturnError(Wrap("HTTP request failed", Sentinel(cause)))
    /\ UNCHANGED <<callVars, ctorConfig, service, ctorErr, domains, reqURL, resp, apiResp, httpCount,
                   bodyOpen, closeCount, stages>>

\* mutant: the body is never closed
CloseBody_leak ==
    UNCHANGED <<bodyOpen, closeCount>>

\* the deferred resp.Body.Close()
CloseBody ==
    /\ bodyOpen' = FALSE
    /\ closeCount' = closeCount + 1

\* mutant: a response whose status code is not 200 is refused before decoding
DecodeResponse_checkCode ==
    /\ pc = "decode"
    /\ stages' = Append(stages, "decode")
    /\ IF resp.StatusCode /= 200 \/ ~Decode(resp.Body).ok
       THEN /\ ReturnError(Wrap("failed to decode XML response",
                                Sentinel(Decode(resp.Body).cause)))
            /\ CloseBody
            /\ UNCHANGED apiResp
       ELSE /\ apiResp' = Decode(resp.Body).apiResp
            /\ pc' = "status"
            /\ UNCHANGED <<results, resultsNil, err, bodyOpen, closeCount>>
    /\ UNCHANGED <<callVars, ctorConfig, service, ctorErr, domains, reqURL, resp, httpCount>>

\* decoder.Decode(&apiResp)
DecodeResponse ==
    /\ pc = "decode"
    /\ stages' = Append(stages, "decode")
    /\ IF ~Decode(resp.Body).ok
       THEN /\ ReturnError(Wrap("failed to decode XML response",
                                Sentinel(Decode(resp.Body).cause)))
            /\ CloseBody
            /\ UNCHANGED apiResp
       ELSE /\ apiResp' = Decode(resp.Body).apiResp
            /\ pc' = "status"
            /\ UNCHANGED <<results, resultsNil, err, bodyOpen, closeCount>>
    /\ UNCHANGED <<callVars, ctorConfig, service, ctorErr, domains, reqURL, resp, httpCount>>

\* mutant: the message of the last error entry is reported
APIErrorOf_last(response) ==
    WrapMsg(ErrAPIError,
            IF Len(response.Errors) > 0
            THEN response.Errors[Len(response.Errors)].Message
            ELSE "unknown error")

\* the error of the "if apiResp.Status != OK" block
APIErrorOf(response) ==
    WrapMsg(ErrAPIError,
            IF Len(response.Errors) > 0 THEN response.Errors[1].Message
            ELSE "unknown error")

\* mutant: the status of the envelope is not looked at
CheckStatus_mapAnyway ==
    /\ pc = "status"
    /\ stages' = Append(stages, "status")
    /\ pc' = "parse"
    /\ UNCHANGED <<results, resultsNil, err, bodyOpen, closeCount>>
    /\ UNCHANGED <<callVars, ctorConfig, service, ctorErr, domains, reqURL, resp, apiResp, httpCount>>

\* if apiResp.Status != "OK" { ... return nil, ErrAPIError }
CheckStatus ==
    /\ pc = "status"
    /\ stages' = Append(stages, "status")
    /\ IF apiResp.Status /= "OK"
       THEN /\ ReturnError(APIErrorOf(apiResp))
            /\ CloseBody
       ELSE /\ pc' = "parse"
            /\ UNCHANGED <<results, resultsNil, err, bodyOpen, closeCount>>
    /\ UNCHANGED <<callVars, ctorConfig, service, ctorErr, domains, reqURL, resp, apiResp, httpCount>>

\* results := n.parseResults(...); return results, nil
ParseAndReturn ==
    /\ pc = "parse"
    /\ stages' = Append(stages, "parse")
    /\ results' = parseResults(apiResp.DomainCheckResults)
    /\ resultsNil' = FALSE
    /\ err' = NoError
    /\ pc' = "done"
    /\ CloseBody
    /\ UNCHANGED <<callVars, ctorConfig, service, ctorErr, domains, reqURL, resp, apiResp, httpCount>>

Next ==
    \/ \E config \in Configs : NewNamecheapTool(config)
    \/ \E ds \in DomainLists : DomainsCheck(ds)
    \/ BuildRequest
    \/ Do
    \/ \E r \in Responses : RoundTripResponse(r)
    \/ \E cause \in TransportCauses : RoundTripError(cause)
    \/ DecodeResponse
    \/ CheckStatus
    \/ ParseAndReturn

Spec == Init /\ [][Next]_vars


-----------------------------------------------------------------------------
(* Properties.                                                             *)

\* an invocation has returned
Returned == pc = "done"

\* an invocation has returned a result list and no error
Succeeded == Returned /\ ~resultsNil /\ err = NoError

\* an invocation has returned e and no result list
FailedWith(e) == Returned /\ resultsNil /\ results = <<>> /\ err = e

\* C1: a domain list of length 0 fails with ErrMissingDomains, one of length
\* 51 or more fails with ErrMaxDomainsExceeded, both without a result list and
\* without running any later stage; a list of length 1..50 passes validation
\* and goes on to request construction.
C1_DomainCountValidation ==
    stages /= <<>> =>
        /\ Len(domains) = 0 =>
              FailedWith(Sentinel(ErrMissingDomains)) /\ stages = <<"validate">>
        /\ Len(domains) >= 51 =>
              FailedWith(Sentinel(ErrMaxDomainsExceeded)) /\ stages = <<"validate">>
        /\ Len(domains) \in 1..50 =>
              \/ pc = "checkDomains" /\ err = NoError
              \/ Len(stages) >= 2 /\ stages[2] = "build"

C1_Witness ==
    Len(domains) = 51 /\ FailedWith(Sentinel(ErrMaxDomainsExceeded))

\* C2: an HTTP request is on the wire only after the domain count has been
\* validated and the request URL has been built, in that order; an invocation
\* that failed validation has issued no HTTP request.
C2_NoRequestBeforeValidation ==
    /\ httpCount > 0 =>
          /\ Len(domains) \in 1..50
          /\ Len(stages) >= 3
          /\ SubSeq(stages, 1, 3) = <<"validate", "build", "http">>
          /\ urlParse(service.config.Endpoint).ok
          /\ reqURL /= <<>>
    /\ err.is \in {ErrMissingDomains, ErrMaxDomainsExceeded} => httpCount = 0

C2_Witness == pc = "wire" /\ httpCount = 1 /\ Len(domains) = 50

\* C3: when the decoded envelope's Status is not "OK" the invocation fails
\* with ErrAPIError carrying the message of the first error entry, or
\* "unknown error" when there is none, and returns no results even if the
\* envelope holds per-domain records.
C3_UpstreamError ==
    (Returned /\ Len(stages) >= 5 /\ apiResp.Status /= "OK") =>
        /\ resultsNil /\ results = <<>>
        /\ err.is = ErrAPIError
        /\ err.msg = IF apiResp.Errors = <<>> THEN "unknown error"
                     ELSE Head(apiResp.Errors).Message

C3_Witness ==
    /\ Returned /\ Len(stages) >= 5 /\ apiResp.Status /= "OK"
    /\ Len(apiResp.Errors) = 2
    /\ apiResp.Errors[1].Message /= apiResp.Errors[2].Message
    /\ Len(apiResp.DomainCheckResults) > 0
    /\ err.msg = apiResp.Errors[1].Message

\* C4: an invocation issues at most one HTTP GET, whatever its outcome.
C4_SingleRequest == httpCount <= 1

C4_Witness ==
    /\ Returned /\ httpCount = 1
    /\ err.prefix = "HTTP request failed"

\* C5: construction with an empty APIUser, APIKey, UserName or ClientIP fails
\* with ErrMissingAPICredentials and yields no service; with all four
\* non-empty it succeeds, whatever the endpoint.
C5_MissingCredentials ==
    pc /= "new" =>
        IF \/ ctorConfig.APIUser = "" \/ ctorConfig.APIKey = ""
           \/ ctorConfig.UserName = "" \/ ctorConfig.ClientIP = ""
        THEN ctorErr = ErrMissingAPICredentials /\ ~service.constructed
        ELSE ctorErr = "" /\ service.constructed

C5_Witness ==
    /\ pc = "noservice"
    /\ ctorConfig.APIUser /= "" /\ ctorConfig.APIKey /= ""
    /\ ctorConfig.UserName /= "" /\ ctorConfig.ClientIP = ""
    /\ ctorConfig.Endpoint = ProductionEndpoint
    /\ ctorErr = ErrMissingAPICredentials


\* ts begins with the tokens of prefix
HasPrefix(ts, prefix) ==
    Len(ts) >= Len(prefix) /\ SubSeq(ts, 1, Len(prefix)) = prefix

\* C6: a client constructed with an empty endpoint uses the production URL
\* for check; a non-empty endpoint is kept unchanged.
C6_EmptyEndpointDefaults ==
    (service.constructed /\ reqURL /= <<>>) =>
        HasPrefix(reqURL, IF ctorConfig.Endpoint = <<>> THEN ProductionEndpoint
                          ELSE ctorConfig.Endpoint)

\* the raw DomainCheckResult elements of the response, as received
RawRecords == resp.Body.doc.Records

\* C7: a successful invocation returns one Result per raw DomainCheckResult
\* element, in the order of the response, Result i carrying the Domain of
\* element i, whatever errors or malformed numbers the elements carry.
C7_OneResultPerRecord ==
    Succeeded =>
        /\ Len(results) = Len(RawRecords)
        /\ \A i \in 1..Len(RawRecords) :
              results[i].Domain = Attr(RawRecords[i], "Domain")

C7_Witness ==
    /\ Succeeded
    /\ Len(RawRecords) = 2
    /\ Attr(RawRecords[1], "ErrorNo") = "1"
    /\ Attr(RawRecords[1], "Description") /= ""
    /\ ~ParseFloat(Attr(RawRecords[2], "PremiumRenewalPrice")).ok
    /\ results[1].Domain = "example.org" /\ results[1].Error /= ""
    /\ results[2].Domain = "premium.io"

\* C8: a Result whose IsPremiumName is false has both premium prices 0,
\* whatever premium price attributes the raw element carries.
C8_PremiumSuppression ==
    Succeeded =>
        \A i \in 1..Len(results) :
            ~results[i].IsPremiumName =>
                /\ results[i].PremiumRegistrationPrice = Zero
                /\ results[i].PremiumRenewalPrice = Zero

C8_Witness ==
    /\ Succeeded /\ Len(results) = 1
    /\ Attr(RawRecords[1], "IsPremiumName") = "false"
    /\ Attr(RawRecords[1], "PremiumRegistrationPrice") = <<"1", "0", "0">>
    /\ Attr(RawRecords[1], "PremiumRenewalPrice") = <<"1", "0", ".", "5">>
    /\ ~results[1].IsPremiumName
    /\ results[1].PremiumRegistrationPrice = Zero

\* the error numbers of the model that denote the code zero, and those that
\* denote no code at all
ZeroCodes == {"0", "00"}
NoCode == ""

\* C9 as stated: Error is non-empty only for an element that carries a
\* non-zero error code and a non-empty Description, and is then the Description.
C9_ErrorOnlyForNonZeroCode ==
    Succeeded =>
        \A i \in 1..Len(results) :
            results[i].Error =
                IF /\ Attr(RawRecords[i], "ErrorNo") \notin ZeroCodes \cup {NoCode}
                   /\ Attr(RawRecords[i], "Description") /= ""
                THEN Attr(RawRecords[i], "Description")
                ELSE ""

\* C9 as amended: Error is the Description exactly when the ErrorNo attribute
\* is not the literal string "0" (absent, empty and "00" are all not "0") and
\* the Description is non-empty; otherwise Error is empty.
C9_ErrorUnlessLiteralZero ==
    Succeeded =>
        \A i \in 1..Len(results) :
            results[i].Error =
                IF /\ Attr(RawRecords[i], "ErrorNo") /= "0"
                   /\ Attr(RawRecords[i], "Description") /= ""
                THEN Attr(RawRecords[i], "Description")
                ELSE ""

C9_Witness ==
    /\ Succeeded /\ Len(results) = 1
    /\ "ErrorNo" \notin RawRecords[1].has
    /\ Attr(RawRecords[1], "IcannFee") /= <<>>
    /\ Attr(RawRecords[1], "Description") = "Domain check failed"
    /\ results[1].Error = "Domain check failed"

\* C10: Available is true exactly for the attribute value "true", and so is
\* IsPremiumName; every other value, an absent attribute included, gives
\* false, and the invocation still succeeds.
C10_ExactTrueLiteral ==
    (Returned /\ Len(stages) >= 5 /\ apiResp.Status = "OK") =>
        /\ Succeeded
        /\ \A i \in 1..Len(RawRecords) :
              /\ results[i].Available
                    <=> ("Available" \in RawRecords[i].has
                         /\ RawRecords[i].val.Available = "true")
              /\ results[i].IsPremiumName
                    <=> ("IsPremiumName" \in RawRecords[i].has
                         /\ RawRecords[i].val.IsPremiumName = "true")

C10_Witness ==
    /\ Succeeded /\ Len(results) = 1
    /\ Attr(RawRecords[1], "Available") = "True"
    /\ Attr(RawRecords[1], "IsPremiumName") = "TRUE"
    /\ ~results[1].Available /\ ~results[1].IsPremiumName

\* an invocation has decoded an envelope whose Status is "OK" and returned
ReturnedOK == Returned /\ Len(stages) >= 5 /\ apiResp.Status = "OK"

FeeAttrs == {"IcannFee", "EapFee"}
PremiumAttrs == {"PremiumRegistrationPrice", "PremiumRenewalPrice"}

\* the attribute is empty (or absent), or is a non-empty string that is no number
Unusable(el, a) == Attr(el, a) = <<>> \/ ~ParseFloat(Attr(el, a)).ok

\* C11: a numeric attribute that is empty or malformed leaves its own field
\* of the Result at 0 and nothing else: the invocation succeeds with one
\* Result per record, and in the same Result every other numeric attribute
\* that parses is still stored (the fees always, the premium prices for a
\* premium name) next to the record's Domain.
C11_MalformedNumericSkipped ==
    ReturnedOK =>
        /\ Succeeded
        /\ Len(results) = Len(RawRecords)
        /\ \A i \in 1..Len(RawRecords) :
              /\ results[i].Domain = Attr(RawRecords[i], "Domain")
              /\ \A a \in NumericAttrs :
                    Unusable(RawRecords[i], a) => results[i][a] = Zero
              /\ \A a \in FeeAttrs :
                    ~Unusable(RawRecords[i], a) =>
                        results[i][a] = ParseFloat(Attr(RawRecords[i], a)).v
              /\ \A a \in PremiumAttrs :
                    (~Unusable(RawRecords[i], a)
                        /\ Attr(RawRecords[i], "IsPremiumName") = "true") =>
                        results[i][a] = ParseFloat(Attr(RawRecords[i], a)).v

C11_Witness ==
    /\ Succeeded /\ Len(results) = 2
    /\ Attr(RawRecords[1], "Domain") = "premium.io"
    /\ Attr(RawRecords[1], "PremiumRenewalPrice") = <<"i", "n", "v", "a", "l", "i", "d">>
    /\ results[1].PremiumRenewalPrice = Zero
    /\ results[1].PremiumRegistrationPrice = Fin(FALSE, 105, -1)
    /\ results[1].IcannFee = Fin(FALSE, 1, -2)
    /\ results[1].EapFee = Zero
    /\ results[2].Domain = "example.org" /\ results[2].Error = "Domain check failed"

\* C12: IcannFee and EapFee of a Result are the parsed values of the
\* record's IcannFee and EapFee attributes whenever the attribute is present
\* and parses, whether or not the name is premium and whether or not the
\* Result carries an error.
C12_FeesIndependentOfPremium ==
    Succeeded =>
        \A i \in 1..Len(RawRecords) :
            \A a \in FeeAttrs :
                (a \in RawRecords[i].has /\ ParseFloat(RawRecords[i].val[a]).ok) =>
                    results[i][a] = ParseFloat(RawRecords[i].val[a]).v

C12_Witness ==
    /\ Succeeded /\ Len(results) = 1
    /\ ~results[1].IsPremiumName
    /\ results[1].Error = "Domain check failed"
    /\ RawRecords[1].val.IcannFee = <<"0", ".", "1", "8">>
    /\ results[1].IcannFee = Fin(FALSE, 18, -2)

\* x >= 0 on float64: false for a negative number, for -Inf and for NaN
FloatGeZero(x) ==
    \/ x.kind = "fin" /\ (~x.neg \/ x.m = 0)
    \/ x.kind = "inf" /\ ~x.neg

\* C13: every Result returned has PremiumRegistrationPrice,
\* PremiumRenewalPrice, IcannFee and EapFee >= 0, whatever the numeric
\* attributes of the response are.
C13_NonNegativeFields ==
    Succeeded =>
        \A i \in 1..Len(results) :
            \A a \in NumericAttrs : FloatGeZero(results[i][a])

\* C14: with an endpoint that url.Parse rejects, an invocation whose domain
\* list passes validation fails with "failed to build request URL" wrapping
\* the parser's error, returns no results, has built no URL and has issued no
\* HTTP request; buildRequestURL itself returns an error and the empty URL
\* for the base URL "://invalid".
C14_UnparsableEndpoint ==
    /\ (Returned /\ Len(domains) \in 1..maxDomainsPerCheck
            /\ ~urlParse(service.config.Endpoint).ok) =>
          /\ FailedWith(Wrap("failed to build request URL",
                             Sentinel("missing protocol scheme")))
          /\ reqURL = <<>>
          /\ httpCount = 0
          /\ stages = <<"validate", "build">>
    /\ service.constructed =>
          LET built == buildRequestURL(service.config, InvalidEndpoint, Join(domains, 1))
          IN  ~built.ok /\ built.cause /= "" /\ built.url = <<>>

C14_Witness ==
    /\ service.config.Endpoint = InvalidEndpoint
    /\ Len(domains) = 2
    /\ Returned /\ resultsNil
    /\ err.prefix = "failed to build request URL"
    /\ httpCount = 0

\* the body is well-formed XML with the root element ApiResponse
WellFormedEnvelope(body) == body.kind = "xml" /\ body.doc.root = "ApiResponse"

DecoderCauses == {"XML syntax error", "expected element type <ApiResponse>"}

\* C15: when client.Do returns an error (connection failure or timeout) the
\* invocation fails with "HTTP request failed" wrapping that error; when the
\* response body is not a well-formed ApiResponse document it fails with
\* "failed to decode XML response" wrapping the decoder's error; in both cases
\* no results are returned and neither the status check nor parseResults runs.
C15_TransportAndDecodeFailures ==
    /\ (Returned /\ httpCount = 1 /\ resp = NoResponse) =>
          /\ resultsNil /\ results = <<>>
          /\ err.prefix = "HTTP request failed"
          /\ err.is \in TransportCauses /\ err.msg = err.is
          /\ stages = <<"validate", "build", "http">>
    /\ (Returned /\ resp /= NoResponse /\ ~WellFormedEnvelope(resp.Body)) =>
          /\ resultsNil /\ results = <<>>
          /\ err.prefix = "failed to decode XML response"
          /\ err.is \in DecoderCauses /\ err.msg = err.is
          /\ stages = <<"validate", "build", "http", "decode">>

C15_Witness ==
    /\ Returned /\ resultsNil
    /\ resp.StatusCode = 200 /\ resp.Body.kind = "malformed"
    /\ err = Wrap("failed to decode XML response", Sentinel("XML syntax error"))
    /\ httpCount = 1

-----------------------------------------------------------------------------
(* buildRequestURL called directly, as TestBuildRequestURL does, on the    *)
(* comma-joined list that checkDomains passes.                             *)

\* domain names with characters that the query encoding must escape
URLDomains == {"example.com", "a&b=c", "%2C"}

QueryEndpoint ==
    <<"https", ":", "//", "api.namecheap.com", "/xml.response", "?", "x", "=", "1">>

BaseURLs == Endpoints \cup {QueryEndpoint}

URLConfigs ==
    [APIUser : {"testuser"}, APIKey : {"testkey", "a&b=c"},
     UserName : {"testusername"}, ClientIP : {"192.168.1.1"},
     Endpoint : {ProductionEndpoint}]

InitBuildRequestURL ==
    /\ ClientInit
    /\ floatCall = NoFloatCall
    /\ toolCall = NoToolCall
    /\ OtherInit
    /\ urlCall \in {[NoURLCall EXCEPT !.config = c, !.baseURL = b, !.domains = ds] :
                      c \in URLConfigs, b \in BaseURLs,
                      ds \in SeqUpTo(URLDomains, MaxShortList)}

\* n.buildRequestURL(baseURL, strings.Join(domains, ","))
BuildRequestURLCall ==
    /\ ~urlCall.called
    /\ LET built == buildRequestURL(urlCall.config, urlCall.baseURL,
                                    Join(urlCall.domains, 1))
       IN  urlCall' = [urlCall EXCEPT !.called = TRUE, !.ok = built.ok,
                                      !.cause = built.cause, !.url = built.url]
    /\ UNCHANGED <<ctorConfig, service, ctorErr, pc, domains, reqURL, resp, apiResp,
                   results, resultsNil, err, httpCount, bodyOpen, closeCount, stages,
                   floatCall, toolCall, otherVars>>

NextBuildRequestURL == BuildRequestURLCall

SpecBuildRequestURL == InitBuildRequestURL /\ [][NextBuildRequestURL]_vars

\* C16: for valid credentials, a base URL that parses and any domain list,
\* the URL that buildRequestURL returns parses, its query parameters read
\* back as ApiUser, ApiKey, UserName and ClientIp equal to the credentials,
\* Command equal to "namecheap.domains.check" and DomainList equal to the
\* domains joined with commas in input order, and its scheme, host and path
\* are those of the base URL.
C16_QueryRoundTrip ==
    (urlCall.called /\ urlParse(urlCall.baseURL).ok) =>
        /\ urlCall.ok
        /\ urlParse(urlCall.url).ok
        /\ LET u    == urlParse(urlCall.url).url
               base == urlParse(urlCall.baseURL).url
           IN  /\ URLQueryGet(u, "ApiUser") = <<urlCall.config.APIUser>>
               /\ URLQueryGet(u, "ApiKey") = <<urlCall.config.APIKey>>
               /\ URLQueryGet(u, "UserName") = <<urlCall.config.UserName>>
               /\ URLQueryGet(u, "ClientIp") = <<urlCall.config.ClientIP>>
               /\ URLQueryGet(u, "Command") = <<"namecheap.domains.check">>
               /\ URLQueryGet(u, "DomainList") = Join(urlCall.domains, 1)
               /\ u.Scheme = base.Scheme /\ u.Host = base.Host /\ u.Path = base.Path

C16_Witness ==
    /\ urlCall.called /\ urlCall.ok
    /\ urlCall.baseURL = ProductionEndpoint
    /\ urlCall.config.APIKey = "a&b=c"
    /\ urlCall.domains = <<"a&b=c", "example.com">>
    /\ URLQueryGet(urlParse(urlCall.url).url, "DomainList")
           = <<"a&b=c", ",", "example.com">>

-----------------------------------------------------------------------------
(* ParseFloat called directly, as TestParseFloat does.                     *)

\* longest string enumerated character by character
MaxFloatLen == 3

FloatAlphabet == {"0", "1", "5", ".", "-", "a"}

FloatStrings == SeqUpTo(FloatAlphabet, MaxFloatLen) \cup NumStrings

InitParseFloat ==
    /\ ClientInit
    /\ urlCall = NoURLCall
    /\ toolCall = NoToolCall
    /\ OtherInit
    /\ floatCall \in {[NoFloatCall EXCEPT !.value = s] : s \in FloatStrings}

\* ParseFloat(value)
ParseFloatCall ==
    /\ ~floatCall.called
    /\ floatCall' = [floatCall EXCEPT !.called = TRUE,
                                      !.ok = ParseFloat(floatCall.value).ok,
                                      !.v = ParseFloat(floatCall.value).v]
    /\ UNCHANGED <<ctorConfig, service, ctorErr, pc, domains, reqURL, resp, apiResp,
                   results, resultsNil, err, httpCount, bodyOpen, closeCount, stages,
                   urlCall, toolCall, otherVars>>

NextParseFloat == ParseFloatCall

SpecParseFloat == InitParseFloat /\ [][NextParseFloat]_vars

\* s is an optional sign followed by digits with at most one "." among them
IsDecimal(s) ==
    LET body == IF s /= <<>> /\ s[1] \in {"+", "-"} THEN Tail(s) ELSE s
    IN  /\ \A i \in 1..Len(body) : body[i] \in Digit \cup {"."}
        /\ Cardinality({i \in 1..Len(body) : body[i] = "."}) <= 1
        /\ \E i \in 1..Len(body) : body[i] \in Digit

\* C18: ParseFloat returns 0 and no error for the empty string, the value
\* and no error for "100", "10.5", "0.01", "0" and "-10.5", and an error for
\* "invalid" and "10.5abc"; of the strings over digits, ".", "-" and a letter
\* it accepts the empty string and the decimal numbers and no others.
C18_ParseFloatValues ==
    floatCall.called =>
        LET s == floatCall.value
            returns(x) == floatCall.ok /\ floatCall.v = x
        IN  /\ s = <<>> => returns(Zero)
            /\ s = <<"1", "0", "0">> => returns(Fin(FALSE, 1, 2))
            /\ s = <<"1", "0", ".", "5">> => returns(Fin(FALSE, 105, -1))
            /\ s = <<"0", ".", "0", "1">> => returns(Fin(FALSE, 1, -2))
            /\ s = <<"0">> => returns(Zero)
            /\ s = <<"-", "1", "0", ".", "5">> => returns(Fin(TRUE, 105, -1))
            /\ s = <<"i", "n", "v", "a", "l", "i", "d">> => ~floatCall.ok
            /\ s = <<"1", "0", ".", "5", "a", "b", "c">> => ~floatCall.ok
            /\ (\A i \in 1..Len(s) : s[i] \in FloatAlphabet) =>
                  (floatCall.ok <=> (s = <<>> \/ IsDecimal(s)))

C18_Witness ==
    /\ floatCall.called
    /\ floatCall.value = <<"-", "1", "0", ".", "5">>
    /\ floatCall.ok /\ floatCall.v = Fin(TRUE, 105, -1)

-----------------------------------------------------------------------------
(* Tool.Handler (package tool).                                            *)

\* NewTool(service)
NewTool(svc) ==
    /\ toolCall.pc = "new"
    /\ toolCall' = [toolCall EXCEPT !.pc = "ready", !.service = svc,
                                    !.executed.output = ZeroOut(svc.out),
                                    !.output = ZeroOut(svc.out)]
    /\ UNCHANGED <<ctorConfig, service, ctorErr, pc, domains, reqURL, resp, apiResp,
                   results, resultsNil, err, httpCount, bodyOpen, closeCount, stages,
                   floatCall, urlCall, otherVars>>

\* mutant: the content is annotated for the user, with priority 0
TextResult_userAudience(text) ==
    [nil |-> FALSE, IsError |-> FALSE,
     Content |-> <<[Text |-> text, Audience |-> <<"user">>, Priority |-> 0]>>]

\* &mcp.CallToolResult{IsError: false, Content: []mcp.Content{&mcp.TextContent{...}}}
TextResult(text) ==
    [nil |-> FALSE, IsError |-> FALSE,
     Content |-> <<[Text |-> text, Audience |-> <<"assistant">>, Priority |-> 1]>>]

\* mutant: the error of Execute is wrapped before it is returned
HandlerReturn_wrapped(executed) ==
    IF executed.err /= NoError
    THEN [result |-> NilResult, output |-> ZeroOut(executed.output.type),
          err |-> Wrap("error executing service", executed.err), marshalCount |-> 0]
    ELSE IF ~jsonMarshal(executed.output).ok
    THEN [result |-> NilResult, output |-> ZeroOut(executed.output.type),
          err |-> Wrap("error marshaling results to JSON",
                       Sentinel(jsonMarshal(executed.output).cause)),
          marshalCount |-> 1]
    ELSE [result |-> TextResult(jsonMarshal(executed.output).text),
          output |-> executed.output, err |-> NoError, marshalCount |-> 1]

\* mutant: a failed json.Marshal returns the output it could not write
HandlerReturn_keepOutput(executed) ==
    IF executed.err /= NoError
    THEN [result |-> NilResult, output |-> ZeroOut(executed.output.type),
          err |-> executed.err, marshalCount |-> 0]
    ELSE IF ~jsonMarshal(executed.output).ok
    THEN [result |-> NilResult, output |-> executed.output,
          err |-> Wrap("error marshaling results to JSON",
                       Sentinel(jsonMarshal(executed.output).cause)),
          marshalCount |-> 1]
    ELSE [result |-> TextResult(jsonMarshal(executed.output).text),
          output |-> executed.output, err |-> NoError, marshalCount |-> 1]

\* the statements of Handler after Execute has returned: what is returned,
\* and how often json.Marshal was called
HandlerReturn(executed) ==
    IF executed.err /= NoError
    THEN [result |-> NilResult, output |-> ZeroOut(executed.output.type),
          err |-> executed.err, marshalCount |-> 0]
    ELSE IF ~jsonMarshal(executed.output).ok
    THEN [result |-> NilResult, output |-> ZeroOut(executed.output.type),
          err |-> Wrap("error marshaling results to JSON",
                       Sentinel(jsonMarshal(executed.output).cause)),
          marshalCount |-> 1]
    ELSE [result |-> TextResult(jsonMarshal(executed.output).text),
          output |-> executed.output, err |-> NoError, marshalCount |-> 1]

\* (t *Tool) Handler(ctx, req, args), Execute returning executed
Handler(args, executed) ==
    /\ toolCall.pc \in {"ready", "done"}
    /\ executed.output.type = toolCall.service.out
    /\ toolCall' = [toolCall EXCEPT
                      !.pc = "done",
                      !.args = args,
                      !.executeCount = 1,
                      !.executeArgs = args,
                      !.executed = executed,
                      !.marshalCount = HandlerReturn(executed).marshalCount,
                      !.result = HandlerReturn(executed).result,
                      !.output = HandlerReturn(executed).output,
                      !.err = HandlerReturn(executed).err]
    /\ UNCHANGED <<ctorConfig, service, ctorErr, pc, domains, reqURL, resp, apiResp,
                   results, resultsNil, err, httpCount, bodyOpen, closeCount, stages,
                   floatCall, urlCall, otherVars>>

NextTool ==
    \/ \E svc \in Services : NewTool(svc)
    \/ \E args \in ToolArgs :
          \E executed \in ExecuteOutcomes(toolCall.service.out) : Handler(args, executed)

SpecTool == Init /\ [][NextTool]_vars

\* C19: when Execute returns an error, Handler returns that same error, not
\* wrapped, with a nil result and the zero value of Out, whatever output
\* Execute returned with the error, and json.Marshal is not called.
C19_ExecuteErrorUnchanged ==
    (toolCall.pc = "done" /\ toolCall.executed.err /= NoError) =>
        /\ toolCall.err = toolCall.executed.err
        /\ toolCall.result.nil /\ toolCall.result.Content = <<>>
        /\ toolCall.output = ZeroOut(toolCall.service.out)
        /\ toolCall.marshalCount = 0
        /\ toolCall.executeCount = 1

C19_Witness ==
    /\ toolCall.pc = "done"
    /\ toolCall.executed.err = errServiceError
    /\ toolCall.executed.output = MockOut("processed: test")
    /\ toolCall.err = errServiceError
    /\ toolCall.result.nil
    /\ toolCall.output = MockOut("")

\* the output has a channel field, or a float64 among its written fields
\* that is NaN or infinite
Unserializable(output) ==
    \/ output.type = "unmarshalableOutput"
    \/ \E i \in 1..Len(output.Results) :
          \E a \in NumericAttrs : output.Results[i][a].kind \in {"nan", "inf"}

\* C20: when Execute succeeds with an output that json.Marshal cannot write,
\* Handler returns "error marshaling results to JSON" wrapping the encoder's
\* error, a nil result with no content, and the zero value of Out instead of
\* the output.
C20_MarshalFailure ==
    (toolCall.pc = "done" /\ toolCall.executed.err = NoError
        /\ Unserializable(toolCall.executed.output)) =>
        /\ toolCall.err.prefix = "error marshaling results to JSON"
        /\ toolCall.err.is \in {"json: unsupported type: chan int",
                                "json: unsupported value"}
        /\ toolCall.result.nil /\ toolCall.result.Content = <<>>
        /\ toolCall.output = ZeroOut(toolCall.service.out)

C20_Witness ==
    /\ toolCall.pc = "done"
    /\ toolCall.executed = [output |-> ChannelOut, err |-> NoError]
    /\ toolCall.err = Wrap("error marshaling results to JSON",
                           Sentinel("json: unsupported type: chan int"))
    /\ toolCall.result.nil
    /\ toolCall.output = ZeroOut("unmarshalableOutput")

\* C21: when Execute succeeds and its output can be written as JSON, Handler
\* returns no error, the output of Execute, and a non-nil result with IsError
\* false and exactly one content: a text whose JSON reads back as that
\* output, with audience <<"assistant">> and priority 1.
C21_SuccessResult ==
    (toolCall.pc = "done" /\ toolCall.executed.err = NoError
        /\ ~Unserializable(toolCall.executed.output)) =>
        /\ toolCall.err = NoError
        /\ toolCall.output = toolCall.executed.output
        /\ ~toolCall.result.nil /\ ~toolCall.result.IsError
        /\ Len(toolCall.result.Content) = 1
        /\ toolCall.result.Content[1].Text.type = "object"
        /\ jsonUnmarshal(toolCall.result.Content[1].Text, toolCall.service.out)
               = toolCall.executed.output
        /\ toolCall.result.Content[1].Audience = <<"assistant">>
        /\ toolCall.result.Content[1].Priority = 1
        /\ toolCall.marshalCount = 1

C21_Witness ==
    /\ toolCall.pc = "done" /\ toolCall.err = NoError
    /\ toolCall.service.out = "ParamsOut"
    /\ Len(toolCall.output.Results) = 2
    /\ toolCall.output.Results[1].Domain = "premium.io"
    /\ toolCall.output.Results[1].IcannFee = Fin(FALSE, 1, -2)
    /\ ~toolCall.result.nil
    /\ toolCall.result.Content[1].Text.results[1].keys
           = {"domain", "available", "isPremiumName", "premiumRegistrationPrice",
              "icannFee"}

-----------------------------------------------------------------------------
(* Invocations of Tool.Handler in flight at once on one Tool.  Handler's   *)
(* variables (args, output, err, jsonData) are locals of the invocation;   *)
(* the Tool has the one field service.  An invocation is interleaved with  *)
(* the others at its call of Execute.                                      *)

\* the outcomes of Execute in the interleaved invocations
ConcurrentOutputs(type) ==
    IF type = "mockOutput" THEN {MockOut(""), MockOut("success: test-input")}
    ELSE IF type = "unmarshalableOutput" THEN {ChannelOut}
    ELSE {ParamsOut(parseResults(<<DecodeRecord(Element(BaseValues))>>)),
          ParamsOut(parseResults(<<DecodeRecord(
              Element([BaseValues EXCEPT !.IcannFee = <<"N", "a", "N">>]))>>))}

ConcurrentOutcomes(type) ==
    [output : ConcurrentOutputs(type), err : {NoError, errServiceError}]

\* Handler up to its call t.service.Execute(args)
HandlerEnter(i, args) ==
    /\ toolCall.pc = "ready"
    /\ handlers[i].pc \in {"idle", "done"}
    /\ handlers' = [handlers EXCEPT ![i] =
                      [NoHandlerCall EXCEPT !.pc = "execute", !.args = args,
                                            !.executeCount = 1,
                                            !.executeArgs = args,
                                            !.executed.output =
                                                ZeroOut(toolCall.service.out),
                                            !.output = ZeroOut(toolCall.service.out)]]
    /\ UNCHANGED <<ctorConfig, service, ctorErr, pc, domains, reqURL, resp, apiResp,
                   results, resultsNil, err, httpCount, bodyOpen, closeCount, stages,
                   floatCall, urlCall, toolCall, checks, corsCall, mcpServer>>

\* mutant: what Handler returns is kept in one place for all invocations
HandlerExit_shared(i, executed) ==
    /\ handlers[i].pc = "execute"
    /\ executed.output.type = toolCall.service.out
    /\ handlers' = [j \in Invocations |->
                      IF j = i \/ handlers[j].pc = "done"
                      THEN [handlers[j] EXCEPT
                              !.pc = "done",
                              !.executed = IF j = i THEN executed ELSE @,
                              !.marshalCount = HandlerReturn(executed).marshalCount,
                              !.result = HandlerReturn(executed).result,
                              !.output = HandlerReturn(executed).output,
                              !.err = HandlerReturn(executed).err]
                      ELSE handlers[j]]
    /\ UNCHANGED <<ctorConfig, service, ctorErr, pc, domains, reqURL, resp, apiResp,
                   results, resultsNil, err, httpCount, bodyOpen, closeCount, stages,
                   floatCall, urlCall, toolCall, checks, corsCall, mcpServer>>

\* Execute returns executed to invocation i; Handler runs to its return
HandlerExit(i, executed) ==
    /\ handlers[i].pc = "execute"
    /\ executed.output.type = toolCall.service.out
    /\ handlers' = [handlers EXCEPT ![i] =
                      [@ EXCEPT !.pc = "done",
                                !.executed = executed,
                                !.marshalCount = HandlerReturn(executed).marshalCount,
                                !.result = HandlerReturn(executed).result,
                                !.output = HandlerReturn(executed).output,
                                !.err = HandlerReturn(executed).err]]
    /\ UNCHANGED <<ctorConfig, service, ctorErr, pc, domains, reqURL, resp, apiResp,
                   results, resultsNil, err, httpCount, bodyOpen, closeCount, stages,
                   floatCall, urlCall, toolCall, checks, corsCall, mcpServer>>

NextHandlers ==
    \/ \E svc \in Services : NewTool(svc)
    \/ \E i \in Invocations : \E args \in ToolArgs : HandlerEnter(i, args)
    \/ \E i \in Invocations :
          \E executed \in ConcurrentOutcomes(toolCall.service.out) :
              HandlerExit(i, executed)

SpecHandlers == Init /\ [][NextHandlers]_vars

\* invocation i has called Execute once, with its own args, and what it
\* returned is settled by what its own Execute returned
OwnOutcome(i) ==
    LET h == handlers[i]
    IN  /\ h.pc \in {"execute", "done"} =>
              h.executeCount = 1 /\ h.executeArgs = h.args
        /\ h.pc = "done" =>
              IF h.executed.err /= NoError
              THEN h.err = h.executed.err /\ h.result.nil
                   /\ h.output = ZeroOut(toolCall.service.out)
              ELSE IF Unserializable(h.executed.output)
              THEN h.err.prefix = "error marshaling results to JSON" /\ h.result.nil
                   /\ h.output = ZeroOut(toolCall.service.out)
              ELSE /\ h.err = NoError /\ h.output = h.executed.output
                   /\ ~h.result.nil /\ Len(h.result.Content) = 1
                   /\ jsonUnmarshal(h.result.Content[1].Text, toolCall.service.out)
                          = h.executed.output

\* C22: in every interleaving of Handler invocations on one Tool, each
\* invocation calls Execute once with the args it was given, what it returns
\* is settled by what its own Execute returned, and no step of an invocation
\* changes the Tool, whose service stays the one NewTool was given.
C22_AdapterStateless ==
    /\ [](\A i \in Invocations : OwnOutcome(i))
    /\ [][toolCall.pc /= "new" => toolCall' = toolCall]_vars

C22_Witness ==
    /\ handlers[1].pc = "done" /\ handlers[2].pc = "done"
    /\ handlers[1].args /= handlers[2].args
    /\ handlers[1].executed.err = errServiceError
    /\ handlers[2].executed.err = NoError
    /\ handlers[1].err = errServiceError
    /\ handlers[2].err = NoError /\ ~handlers[2].result.nil

-----------------------------------------------------------------------------
(* Invocations of DomainsCheck in flight at once on one Service.  The      *)
(* Service has the fields logger and config; domains, reqURL, req, client, *)
(* resp, apiResp, results and err are parameters and locals of the         *)
(* invocation.  checks[i] holds them for invocation i; an invocation is    *)
(* interleaved with the others between its stages.                         *)

ConcurrentConfigs ==
    { [APIUser |-> "testuser", APIKey |-> "testkey", UserName |-> "testusername",
       ClientIP |-> "192.168.1.1", Endpoint |-> e] :
          e \in {ProductionEndpoint, InvalidEndpoint, <<>>} }
    \cup {[ZeroConfig EXCEPT !.APIUser = "testuser", !.Endpoint = ProductionEndpoint]}

ConcurrentDomainLists ==
    {<<>>, <<"example.com">>, <<"example.org", "example.com">>}

ConcurrentBodies ==
    { [kind |-> "xml",
       doc |-> Document("ApiResponse", TRUE, "OK", <<>>, <<Element(BaseValues)>>)],
      [kind |-> "xml",
       doc |-> Document("ApiResponse", TRUE, "OK", <<>>,
                        <<Element([FullValues EXCEPT !.ErrorNo = "0"]),
                          Element(BaseValues)>>)],
      [kind |-> "xml",
       doc |-> Document("ApiResponse", TRUE, "ERROR",
                        <<[Number |-> "2030280",
                           Message |-> "TLD is not supported in API"]>>, <<>>)],
      [kind |-> "malformed", doc |-> EmptyDocument] }

ConcurrentResponses ==
    {[StatusCode |-> IF b.kind = "xml" /\ b.doc.Status = "OK" THEN 200 ELSE 500,
      Body |-> b] : b \in ConcurrentBodies}

\* return nil, e in invocation c
ReturnErrorOf(c, e) ==
    [c EXCEPT !.results = <<>>, !.resultsNil = TRUE, !.err = e, !.pc = "done"]

\* the deferred resp.Body.Close() of invocation c
CloseBodyOf(c) == [c EXCEPT !.bodyOpen = FALSE, !.closeCount = @ + 1]

\* the frame of a step of one invocation
OnlyChecks ==
    UNCHANGED <<ctorConfig, service, ctorErr, pc, domains, reqURL, resp, apiResp,
                results, resultsNil, err, httpCount, bodyOpen, closeCount, stages,
                floatCall, urlCall, toolCall, handlers, corsCall, mcpServer>>

\* (n *Service) DomainsCheck(domains) in invocation i
GoDomainsCheck(i, ds) ==
    /\ service.constructed
    /\ checks[i].pc \in {"idle", "done"}
    /\ LET c == [NoCheck EXCEPT !.domains = ds, !.stages = <<"validate">>]
       IN  checks' = [checks EXCEPT ![i] =
                        IF ValidateDomains(ds) /= ""
                        THEN ReturnErrorOf(c, Sentinel(ValidateDomains(ds)))
                        ELSE [c EXCEPT !.pc = "checkDomains"]]
    /\ OnlyChecks

\* what n.buildRequestURL and http.NewRequestWithContext make of a config and
\* a domain list
RequestOf(config, ds) ==
    LET built == buildRequestURL(config, config.Endpoint, Join(ds, 1))
    IN  IF ~built.ok
        THEN [ok |-> FALSE, url |-> <<>>,
              err |-> Wrap("failed to build request URL", Sentinel(built.cause))]
        ELSE IF ~urlParse(built.url).ok
        THEN [ok |-> FALSE, url |-> built.url,
              err |-> Wrap("failed to create request",
                           Sentinel(urlParse(built.url).cause))]
        ELSE [ok |-> TRUE, url |-> built.url, err |-> NoError]

\* RequestOf for the configs and domain lists of the concurrent invocations
ConcurrentRequests ==
    [config \in ConcurrentConfigs |->
        [ds \in ConcurrentDomainLists |-> RequestOf(config, ds)]]

\* checkDomains up to http.NewRequestWithContext in invocation i
GoBuildRequest(i) ==
    /\ checks[i].pc = "checkDomains"
    /\ LET c   == [checks[i] EXCEPT !.stages = Append(@, "build")]
           req == ConcurrentRequests[service.config][c.domains]
       IN  checks' = [checks EXCEPT ![i] =
                        IF ~req.ok
                        THEN ReturnErrorOf([c EXCEPT !.reqURL = req.url], req.err)
                        ELSE [c EXCEPT !.reqURL = req.url, !.pc = "do"]]
    /\ OnlyChecks

\* client.Do(req) in invocation i: refused locally, or the GET goes on the wire
GoDo(i) ==
    /\ checks[i].pc = "do"
    /\ LET c       == [checks[i] EXCEPT !.stages = Append(@, "http")]
           refused == DoPrecheck(urlParse(c.reqURL).url)
       IN  checks' = [checks EXCEPT ![i] =
                        IF refused /= ""
                        THEN ReturnErrorOf(c, Wrap("HTTP request failed",
                                                   Sentinel(refused)))
                        ELSE [c EXCEPT !.httpCount = @ + 1, !.pc = "wire"]]
    /\ OnlyChecks

\* client.Do returns a response to invocation i
GoRoundTripResponse(i, r) ==
    /\ checks[i].pc = "wire"
    /\ checks' = [checks EXCEPT ![i] =
                    [@ EXCEPT !.resp = r, !.bodyOpen = TRUE, !.pc = "decode"]]
    /\ OnlyChecks

\* client.Do returns an error to invocation i
GoRoundTripError(i, cause) ==
    /\ checks[i].pc = "wire"
    /\ checks' = [checks EXCEPT ![i] =
                    ReturnErrorOf(@, Wrap("HTTP request failed", Sentinel(cause)))]
    /\ OnlyChecks

\* what decoder.Decode(&apiResp) and the return after it make of invocation c
DecodedCheck(c) ==
    IF ~Decode(c.resp.Body).ok
    THEN CloseBodyOf(ReturnErrorOf(c, Wrap("failed to decode XML response",
                                           Sentinel(Decode(c.resp.Body).cause))))
    ELSE [c EXCEPT !.apiResp = Decode(c.resp.Body).apiResp, !.pc = "status"]

\* mutant: the decoded envelope is kept in the Service, for all invocations
GoDecodeResponse_shared(i) ==
    /\ checks[i].pc = "decode"
    /\ checks' = [j \in Invocations |->
                    IF j = i
                    THEN DecodedCheck([checks[i] EXCEPT !.stages = Append(@, "decode")])
                    ELSE IF checks[j].pc \in {"status", "parse"}
                    THEN [checks[j] EXCEPT !.apiResp = Decode(checks[i].resp.Body).apiResp]
                    ELSE checks[j]]
    /\ OnlyChecks

\* decoder.Decode(&apiResp) in invocation i
GoDecodeResponse(i) ==
    /\ checks[i].pc = "decode"
    /\ checks' = [checks EXCEPT ![i] =
                    DecodedCheck([@ EXCEPT !.stages = Append(@, "decode")])]
    /\ OnlyChecks

\* if apiResp.Status != "OK" { ... } in invocation i
GoCheckStatus(i) ==
    /\ checks[i].pc = "status"
    /\ LET c == [checks[i] EXCEPT !.stages = Append(@, "status")]
       IN  checks' = [checks EXCEPT ![i] =
                        IF c.apiResp.Status /= "OK"
                        THEN CloseBodyOf(ReturnErrorOf(c, APIErrorOf(c.apiResp)))
                        ELSE [c EXCEPT !.pc = "parse"]]
    /\ OnlyChecks

\* results := n.parseResults(...); return results, nil in invocation i
GoParseAndReturn(i) ==
    /\ checks[i].pc = "parse"
    /\ checks' = [checks EXCEPT ![i] =
                    CloseBodyOf([@ EXCEPT
                        !.stages = Append(@, "parse"),
                        !.results =
                            parseResults(checks[i].apiResp.DomainCheckResults),
                        !.resultsNil = FALSE,
                        !.err = NoError,
                        !.pc = "done"])]
    /\ OnlyChecks

NextConcurrent ==
    \/ \E config \in ConcurrentConfigs : NewNamecheapTool(config)
    \/ \E i \in Invocations : \E ds \in ConcurrentDomainLists : GoDomainsCheck(i, ds)
    \/ \E i \in Invocations : GoBuildRequest(i)
    \/ \E i \in Invocations : GoDo(i)
    \/ \E i \in Invocations : \E r \in ConcurrentResponses : GoRoundTripResponse(i, r)
    \/ \E i \in Invocations : \E cause \in TransportCauses : GoRoundTripError(i, cause)
    \/ \E i \in Invocations : GoDecodeResponse(i)
    \/ \E i \in Invocations : GoCheckStatus(i)
    \/ \E i \in Invocations : GoParseAndReturn(i)

SpecConcurrent == Init /\ [][NextConcurrent]_vars

\* what DomainsCheck(ds) returns on a Service with the given config when it
\* runs alone and the upstream answers with response r (NoResponse: the
\* round trip fails with the cause): the results, whether they are nil, and
\* the error
Alone(config, ds, r, cause) ==
    LET failed(e) == [results |-> <<>>, resultsNil |-> TRUE, err |-> e]
        built     == buildRequestURL(config, config.Endpoint, Join(ds, 1))
    IN  IF Len(ds) = 0 THEN failed(Sentinel(ErrMissingDomains))
        ELSE IF Len(ds) > maxDomainsPerCheck THEN failed(Sentinel(ErrMaxDomainsExceeded))
        ELSE IF ~built.ok
        THEN failed(Wrap("failed to build request URL", Sentinel(built.cause)))
        ELSE IF DoPrecheck(urlParse(built.url).url) /= ""
        THEN failed(Wrap("HTTP request failed",
                         Sentinel(DoPrecheck(urlParse(built.url).url))))
        ELSE IF r = NoResponse
        THEN failed(Wrap("HTTP request failed", Sentinel(cause)))
        ELSE IF ~Decode(r.Body).ok
        THEN failed(Wrap("failed to decode XML response", Sentinel(Decode(r.Body).cause)))
        ELSE IF Decode(r.Body).apiResp.Status /= "OK"
        THEN failed(APIErrorOf(Decode(r.Body).apiResp))
        ELSE [results |-> parseResults(Decode(r.Body).apiResp.DomainCheckResults),
              resultsNil |-> FALSE, err |-> NoError]

\* invocation i has returned what it would have returned alone
OutcomeAsAlone(i) ==
    LET c == checks[i]
    IN  c.pc = "done" =>
            \E cause \in TransportCauses :
                [results |-> c.results, resultsNil |-> c.resultsNil, err |-> c.err]
                    = Alone(service.config, c.domains, c.resp, cause)

\* C23: in every interleaving of DomainsCheck invocations on one Service,
\* the Service (its config) is never changed once constructed, a step of one
\* invocation changes nothing of another invocation, and every invocation
\* returns what it would have returned running alone with its own domain
\* list against its own upstream response.
C23_RequestScoped ==
    /\ [](\A i \in Invocations : OutcomeAsAlone(i))
    /\ [][service.constructed => service' = service]_vars
    /\ [][\A i, j \in Invocations :
            (i /= j /\ checks'[i] /= checks[i]) => checks'[j] = checks[j]]_vars

C23_Witness ==
    /\ checks[1].pc = "done" /\ ~checks[1].resultsNil /\ Len(checks[1].results) = 2
    /\ checks[1].domains = <<"example.org", "example.com">>
    /\ checks[2].pc = "status" /\ checks[2].domains = <<"example.com">>
    /\ checks[2].apiResp.Status = "ERROR"
    /\ checks[2].resp /= checks[1].resp

\* ---------------------------------------------------------------------------
\* The timer of http.Client{Timeout: time.Second * httpTimeoutSeconds}: one
\* invocation of DomainsCheck with the seconds elapsed since client.Do was
\* called. The timer runs while Do waits for the response and, after Do has
\* returned, while the body is read by the decoder.
\* ---------------------------------------------------------------------------

\* the error of a request the client's timer has ended
ClientTimeoutCause == "Client.Timeout exceeded while awaiting headers"

\* the error of a body read the client's timer has ended
BodyTimeoutCause == "context deadline exceeded (Client.Timeout or context cancellation while reading body)"

\* a second passes while the request or the body read is pending
Tick ==
    /\ checks[1].pc \in {"wire", "decode"}
    /\ checks[1].elapsed < httpTimeoutSeconds
    /\ checks' = [checks EXCEPT ![1].elapsed = @ + 1]
    /\ OnlyChecks

\* the upstream answers before the timer ends the request
AnswerInTime(r) ==
    /\ checks[1].elapsed < httpTimeoutSeconds
    /\ GoRoundTripResponse(1, r)

\* mutant: a client without Timeout keeps waiting
ClientTimeout_none ==
    /\ checks[1].pc = "wire"
    /\ checks[1].elapsed = httpTimeoutSeconds
    /\ UNCHANGED vars

\* the timer ends the pending request: client.Do returns the timeout error
ClientTimeout ==
    /\ checks[1].pc = "wire"
    /\ checks[1].elapsed = httpTimeoutSeconds
    /\ checks' = [checks EXCEPT ![1] =
                    ReturnErrorOf(@, Wrap("HTTP request failed",
                                          Sentinel(ClientTimeoutCause)))]
    /\ OnlyChecks

\* the body arrives before the timer ends the read: the decoder runs
BodyInTime ==
    /\ checks[1].elapsed < httpTimeoutSeconds
    /\ GoDecodeResponse(1)

\* the timer ends the body read: decoder.Decode returns the read error
BodyTimeout ==
    /\ checks[1].pc = "decode"
    /\ checks[1].elapsed = httpTimeoutSeconds
    /\ checks' = [checks EXCEPT ![1] =
                    CloseBodyOf(ReturnErrorOf(
                        [@ EXCEPT !.stages = Append(@, "decode")],
                        Wrap("failed to decode XML response",
                             Sentinel(BodyTimeoutCause))))]
    /\ OnlyChecks

NextTimeout ==
    \/ \E config \in ConcurrentConfigs : NewNamecheapTool(config)
    \/ \E ds \in ConcurrentDomainLists : GoDomainsCheck(1, ds)
    \/ GoBuildRequest(1)
    \/ GoDo(1)
    \/ Tick
    \/ \E r \in ConcurrentResponses : AnswerInTime(r)
    \/ GoRoundTripError(1, "connection refused")
    \/ ClientTimeout
    \/ BodyInTime
    \/ BodyTimeout
    \/ GoCheckStatus(1)
    \/ GoParseAndReturn(1)

\* the steps of the goroutine and of the timer; at most one is enabled at a time
LocalStep ==
    \/ GoBuildRequest(1)
    \/ GoDo(1)
    \/ Tick
    \/ ClientTimeout
    \/ BodyTimeout
    \/ GoCheckStatus(1)
    \/ GoParseAndReturn(1)

\* the goroutine's own steps are taken and time passes; nothing is assumed of
\* the upstream (AnswerInTime, BodyInTime, GoRoundTripError)
FairTimeout == WF_vars(LocalStep)

SpecTimeout == Init /\ [][NextTimeout]_vars /\ FairTimeout

\* the invocation is between its call and its return
InFlight == checks[1].pc \notin {"idle", "done"}

\* C24: every invocation of DomainsCheck that has started eventually returns,
\* with either a result list and no error or an error and no result list; a
\* request still unanswered when the client's timer runs out returns an error
\* with the prefix "HTTP request failed".
C24_Termination ==
    /\ InFlight ~> (checks[1].pc = "done")
    /\ [](checks[1].pc = "done" => (checks[1].resultsNil <=> checks[1].err /= NoError))
    /\ (checks[1].pc = "wire" /\ checks[1].elapsed = httpTimeoutSeconds)
          ~> (/\ checks[1].pc = "done"
              /\ checks[1].resultsNil
              /\ checks[1].err.prefix = "HTTP request failed"
              /\ checks[1].stages = <<"validate", "build", "http">>)

C24_Witness ==
    /\ checks[1].pc = "done"
    /\ checks[1].elapsed = httpTimeoutSeconds
    /\ checks[1].resultsNil
    /\ checks[1].err = Wrap("HTTP request failed", Sentinel(ClientTimeoutCause))
    /\ checks[1].closeCount = 0

\* ---------------------------------------------------------------------------
\* main and setupTools (cmd/app): the tools added to the MCP server at start.
\* ---------------------------------------------------------------------------

\* the Namecheap service as a Service[ParamsIn, ParamsOut]: its Name() and
\* Description()
NamecheapService ==
    [name |-> "check_availability_namecheap",
     description |-> "Check domain availability using Namecheap API",
     out |-> "ParamsOut"]

\* namecheap.NewService(logger, config): the service, or the error
NewService(config) ==
    IF MissingCredentials(config)
    THEN [ok |-> FALSE, service |-> NoService, err |-> Sentinel(ErrMissingAPICredentials)]
    ELSE [ok |-> TRUE, service |-> NamecheapService, err |-> NoError]

\* tool.NewTool(service): the Tool value
ToolOf(svc) == [service |-> svc]

\* (t *Tool) Name()
ToolName(t) == t.service.name

\* (t *Tool) Description()
ToolDescription(t) == t.service.description

\* mutant: the descriptor's fields are filled the other way round
ToolDescriptor_swapped(t) == [Name |-> ToolDescription(t), Description |-> ToolName(t)]

\* &mcp.Tool{Name: namecheapTool.Name(), Description: namecheapTool.Description()}
ToolDescriptor(t) == [Name |-> ToolName(t), Description |-> ToolDescription(t)]

\* mcp.AddTool(server, descriptor, handler): the server's tools are keyed by name
AddTool(tools, descriptor) ==
    IF \E k \in 1..Len(tools) : tools[k].Name = descriptor.Name
    THEN [k \in 1..Len(tools) |->
            IF tools[k].Name = descriptor.Name THEN descriptor ELSE tools[k]]
    ELSE Append(tools, descriptor)

\* the frame of a step of main
OnlyServer ==
    UNCHANGED <<ctorConfig, service, ctorErr, pc, domains, reqURL, resp, apiResp,
                results, resultsNil, err, httpCount, bodyOpen, closeCount, stages,
                floatCall, urlCall, toolCall, handlers, checks, corsCall>>

\* env.Parse(&cfg), createLogger and mcp.NewServer in main
ParseEnv(cfg) ==
    /\ mcpServer.pc = "main"
    /\ mcpServer' = [mcpServer EXCEPT !.cfg = cfg, !.pc = "setupTools"]
    /\ OnlyServer

\* setupTools(mcpServer, logger, &cfg)
SetupTools ==
    /\ mcpServer.pc = "setupTools"
    /\ LET cfg == mcpServer.cfg
           namecheapConfig ==
               [APIUser |-> cfg.APIUser, APIKey |-> cfg.APIKey,
                UserName |-> cfg.UserName, ClientIP |-> cfg.ClientIP,
                Endpoint |-> cfg.Endpoint]
           created == NewService(namecheapConfig)
       IN  mcpServer' =
             IF /\ namecheapConfig.APIUser /= "" /\ namecheapConfig.APIKey /= ""
                /\ namecheapConfig.UserName /= "" /\ namecheapConfig.ClientIP /= ""
             THEN IF ~created.ok
                  THEN [mcpServer EXCEPT
                          !.log = Append(@, "Failed to create Namecheap service"),
                          !.pc = "startServer"]
                  ELSE [mcpServer EXCEPT
                          !.tools = AddTool(@, ToolDescriptor(ToolOf(created.service))),
                          !.addToolCalls = @ + 1,
                          !.log = Append(@, "Namecheap tool enabled"),
                          !.pc = "startServer"]
             ELSE [mcpServer EXCEPT
                     !.log = Append(@, "Namecheap tool disabled - missing configuration"),
                     !.pc = "startServer"]
    /\ OnlyServer

\* startServer(mcpServer, logger) up to httpServer.ListenAndServe()
StartServer ==
    /\ mcpServer.pc = "startServer"
    /\ mcpServer' = [mcpServer EXCEPT !.log = Append(@, "Starting server on :8080"),
                                      !.pc = "serving"]
    /\ OnlyServer

NextMain ==
    \/ \E cfg \in Configs : ParseEnv(cfg)
    \/ SetupTools
    \/ StartServer

SpecMain == Init /\ [][NextMain]_vars

\* all four credentials of main's cfg are set
AllCredentials == ~MissingCredentials(mcpServer.cfg)

\* C25: after setupTools the server has exactly the one tool named
\* check_availability_namecheap with the description "Check domain
\* availability using Namecheap API", added by one AddTool call, if all four
\* credentials are non-empty, and no tool otherwise; in both cases main has
\* not failed and goes on to startServer; the tools do not change afterwards;
\* a Tool's Name and Description are those of the service it wraps.
C25_ToolRegistration ==
    /\ [](mcpServer.pc \in {"main", "setupTools"} =>
              mcpServer.tools = <<>> /\ mcpServer.addToolCalls = 0)
    /\ [](mcpServer.pc \in {"startServer", "serving"} =>
              /\ ~mcpServer.failed
              /\ IF AllCredentials
                 THEN /\ mcpServer.tools =
                           <<[Name |-> "check_availability_namecheap",
                              Description |->
                                  "Check domain availability using Namecheap API"]>>
                      /\ mcpServer.addToolCalls = 1
                 ELSE /\ mcpServer.tools = <<>>
                      /\ mcpServer.addToolCalls = 0)
    /\ [](\A svc \in Services :
              /\ ToolName(ToolOf(svc)) = svc.name
              /\ ToolDescription(ToolOf(svc)) = svc.description)
    /\ [][mcpServer.pc = "startServer" =>
              /\ mcpServer'.pc = "serving"
              /\ mcpServer'.tools = mcpServer.tools]_vars

C25_Witness ==
    /\ mcpServer.pc = "serving"
    /\ AllCredentials
    /\ mcpServer.cfg.Endpoint = SandboxEndpoint
    /\ Len(mcpServer.tools) = 1
    /\ mcpServer.tools[1].Name = ToolName(ToolOf(NamecheapService))
    /\ mcpServer.log = <<"Namecheap tool enabled", "Starting server on :8080">>

\* ---------------------------------------------------------------------------
\* json.Marshal of a ParamsOut, as Handler calls it on the Namecheap tool.
\* ---------------------------------------------------------------------------

\* float64 values of a Result field: both zeros, a positive and a negative
MarshalFloats == {Zero, Fin(TRUE, 0, 0), Fin(FALSE, 1, -2), Fin(TRUE, 105, -1)}

\* a Result with one of its fields set
OneField(a, x, e) ==
    [NewResult(DecodeRecord(Element(BaseValues))) EXCEPT ![a] = x, !.Error = e]

\* Results to write: no numeric field set, one set, all set; with and
\* without an error message
MarshalResults ==
    { OneField(a, x, e) :
        a \in NumericAttrs, x \in MarshalFloats, e \in {"", "Domain check failed"} }
    \cup { [NewResult(DecodeRecord(Element(BaseValues))) EXCEPT
               !.Domain = "premium.io", !.IsPremiumName = TRUE,
               !.PremiumRegistrationPrice = Fin(FALSE, 105, -1),
               !.PremiumRenewalPrice = Fin(FALSE, 12, 0),
               !.IcannFee = Fin(FALSE, 1, -2),
               !.EapFee = Fin(FALSE, 5, 0)] }

\* the outputs Execute of the Namecheap tool returns without error
MarshalOutputs == {ParamsOut(rs) : rs \in SeqUpTo(MarshalResults, MaxRecords)}

\* one call of the handler of the Namecheap tool
MarshalCall(args, output) ==
    /\ toolCall.pc = "ready"
    /\ Handler(args, [output |-> output, err |-> NoError])

NextMarshal ==
    \/ NewTool(NamecheapService)
    \/ \E args \in ToolArgs : \E output \in MarshalOutputs : MarshalCall(args, output)

SpecMarshal == Init /\ [][NextMarshal]_vars

\* the float64 equals 0
IsZeroFloat(x) == x.kind = "fin" /\ x.m = 0

\* object obj has key k exactly when present holds
KeyIff(obj, k, present) == (k \in obj.keys) <=> present

\* C26: the text Handler returns for a ParamsOut is an object whose only key
\* is results, holding one object per Result in the order of the list; each
\* object has the keys domain, available and isPremiumName, has
\* premiumRegistrationPrice, premiumRenewalPrice, icannFee, eapFee exactly
\* when the field's value is not zero, has error exactly when the message is
\* not empty, and has no other key.
C26_SerializedKeys ==
    (toolCall.pc = "done" /\ toolCall.service.out = "ParamsOut"
        /\ toolCall.err = NoError /\ ~toolCall.result.nil) =>
        LET text == toolCall.result.Content[1].Text
            rs   == toolCall.executed.output.Results
        IN  /\ text.keys = {"results"}
            /\ ~text.null
            /\ Len(text.results) = Len(rs)
            /\ \A i \in 1..Len(rs) :
                 LET obj == text.results[i]
                 IN  /\ obj.val = rs[i]
                     /\ {"domain", "available", "isPremiumName"} \subseteq obj.keys
                     /\ KeyIff(obj, "premiumRegistrationPrice",
                               ~IsZeroFloat(rs[i].PremiumRegistrationPrice))
                     /\ KeyIff(obj, "premiumRenewalPrice",
                               ~IsZeroFloat(rs[i].PremiumRenewalPrice))
                     /\ KeyIff(obj, "icannFee", ~IsZeroFloat(rs[i].IcannFee))
                     /\ KeyIff(obj, "eapFee", ~IsZeroFloat(rs[i].EapFee))
                     /\ KeyIff(obj, "error", rs[i].Error /= "")
                     /\ obj.keys \subseteq
                          {"domain", "available", "isPremiumName",
                           "premiumRegistrationPrice", "premiumRenewalPrice",
                           "icannFee", "eapFee", "error"}

C26_Witness ==
    /\ toolCall.pc = "done" /\ toolCall.err = NoError
    /\ toolCall.service = NamecheapService
    /\ Len(toolCall.executed.output.Results) = 2
    /\ toolCall.executed.output.Results[1].EapFee = Fin(TRUE, 0, 0)
    /\ toolCall.executed.output.Results[2].Error = "Domain check failed"
    /\ toolCall.executed.output.Results[2].IcannFee = Fin(FALSE, 1, -2)
    /\ toolCall.result.Content[1].Text.results[1].keys
           = {"domain", "available", "isPremiumName"}
    /\ toolCall.result.Content[1].Text.results[2].keys
           = {"domain", "available", "isPremiumName", "icannFee", "error"}

\* ---------------------------------------------------------------------------
\* corsMiddleware (cmd/app): the handler it returns, around a next handler.
\* The ResponseWriter is its header map, whether WriteHeader was called,
\* and the status and headers that were sent.
\* ---------------------------------------------------------------------------

\* request methods; method names are compared as they are written
Methods == {"GET", "POST", "DELETE", "OPTIONS", "PUT", "PATCH", "HEAD", "options"}

\* the status the next handler writes; 0: it returns without WriteHeader and
\* the server sends 200
NextStatuses == {0, 200, 201, 204, 400, 404, 500}

\* the Access-Control-Allow-Origin the next handler sets; "": it sets none
NextOrigins == {"", "https://example.com"}

\* the headers corsMiddleware sets
CorsHeaders ==
    [AllowOrigin   |-> "*",
     AllowMethods  |-> "GET, POST, DELETE, OPTIONS",
     AllowHeaders  |-> "Content-Type, Authorization, Mcp-Protocol-Version, Mcp-Session-Id",
     ExposeHeaders |-> "Mcp-Session-Id"]

\* the four w.Header().Set calls, in order
CorsSetEvents ==
    <<"Set Access-Control-Allow-Origin", "Set Access-Control-Allow-Methods",
      "Set Access-Control-Allow-Headers", "Set Access-Control-Expose-Headers">>

\* mutant: no method is answered by the middleware itself
IsOptions_never(method) == FALSE

\* r.Method == http.MethodOptions
IsOptions(method) == method = "OPTIONS"

\* the frame of a step of the middleware
OnlyCors ==
    UNCHANGED <<ctorConfig, service, ctorErr, pc, domains, reqURL, resp, apiResp,
                results, resultsNil, err, httpCount, bodyOpen, closeCount, stages,
                floatCall, urlCall, toolCall, handlers, checks, mcpServer>>

\* w.WriteHeader(code) on writer w: the first call sends the status and the
\* headers as they are then
WriteHeader(w, code) ==
    IF w.wroteHeader THEN [w EXCEPT !.log = Append(@, "WriteHeader")]
    ELSE [w EXCEPT !.wroteHeader = TRUE, !.status = code, !.sentHeaders = w.headers,
                   !.log = Append(@, "WriteHeader")]

\* the handler of corsMiddleware on a request with the method, up to its
\* return or its call of next.ServeHTTP
CorsServeHTTP(method) ==
    /\ corsCall.pc \in {"idle", "done"}
    /\ LET w == [NoCorsCall EXCEPT !.method = method, !.headers = CorsHeaders,
                                   !.log = CorsSetEvents]
       IN  corsCall' =
             IF IsOptions(method)
             THEN [WriteHeader(w, 200) EXCEPT !.pc = "done"]
             ELSE [w EXCEPT !.pc = "next", !.nextCalls = @ + 1,
                            !.log = Append(@, "next.ServeHTTP")]
    /\ OnlyCors

\* next.ServeHTTP(w, r): the next handler may set a header of its own and
\* writes its status; the server sends 200 when the handler wrote none
NextServeHTTP(status, origin) ==
    /\ corsCall.pc = "next"
    /\ LET w1 == [corsCall EXCEPT !.nextStatus = status,
                                  !.headers.AllowOrigin =
                                      IF origin = "" THEN @ ELSE origin]
           w2 == IF status = 0 THEN w1 ELSE WriteHeader(w1, status)
           w3 == IF w2.wroteHeader THEN w2
                 ELSE [w2 EXCEPT !.wroteHeader = TRUE, !.status = 200,
                                 !.sentHeaders = w2.headers]
       IN  corsCall' = [w3 EXCEPT !.pc = "done"]
    /\ OnlyCors

NextCors ==
    \/ \E method \in Methods : CorsServeHTTP(method)
    \/ \E status \in NextStatuses : \E origin \in NextOrigins :
          NextServeHTTP(status, origin)

SpecCors == Init /\ [][NextCors]_vars

\* C27: on every request the four CORS headers are set, with their fixed
\* values, before the status is written and before the next handler is
\* called; an OPTIONS request is answered with status 200 and these headers,
\* and the next handler is not called; for any other method the next handler
\* is called exactly once and the status sent is the one it wrote (200 when
\* it wrote none), with the CORS headers the next handler did not replace.
C27_CorsMiddleware ==
    (corsCall.pc /= "idle") =>
        /\ SubSeq(corsCall.log, 1, 4) = CorsSetEvents
        /\ \A k \in 5..Len(corsCall.log) :
              corsCall.log[k] \in {"WriteHeader", "next.ServeHTTP"}
        /\ corsCall.headers.AllowMethods = "GET, POST, DELETE, OPTIONS"
        /\ corsCall.headers.AllowHeaders =
              "Content-Type, Authorization, Mcp-Protocol-Version, Mcp-Session-Id"
        /\ corsCall.headers.ExposeHeaders = "Mcp-Session-Id"
        /\ (corsCall.pc = "next" => corsCall.headers.AllowOrigin = "*"
                                    /\ ~corsCall.wroteHeader)
        /\ (corsCall.method = "OPTIONS" =>
              /\ corsCall.pc = "done"
              /\ corsCall.status = 200
              /\ corsCall.nextCalls = 0
              /\ corsCall.sentHeaders = CorsHeaders)
        /\ (corsCall.method /= "OPTIONS" => corsCall.nextCalls = 1)
        /\ (corsCall.method /= "OPTIONS" /\ corsCall.pc = "done" =>
              /\ corsCall.status = IF corsCall.nextStatus = 0 THEN 200
                                   ELSE corsCall.nextStatus
              /\ corsCall.sentHeaders.AllowMethods = CorsHeaders.AllowMethods
              /\ corsCall.sentHeaders.AllowHeaders = CorsHeaders.AllowHeaders
              /\ corsCall.sentHeaders.ExposeHeaders = CorsHeaders.ExposeHeaders
              /\ corsCall.sentHeaders.AllowOrigin \in {"*", "https://example.com"})

C27_Witness ==
    /\ corsCall.pc = "done"
    /\ corsCall.method = "DELETE"
    /\ corsCall.nextCalls = 1
    /\ corsCall.nextStatus = 204
    /\ corsCall.status = 204
    /\ corsCall.sentHeaders = CorsHeaders
    /\ corsCall.log = <<"Set Access-Control-Allow-Origin",
                        "Set Access-Control-Allow-Methods",
                        "Set Access-Control-Allow-Headers",
                        "Set Access-Control-Expose-Headers",
                        "next.ServeHTTP", "WriteHeader">>

\* ---------------------------------------------------------------------------
\* The stages of one invocation, its response and its body (Spec).
\* ---------------------------------------------------------------------------

\* the stages in the order of the code
StageOrder == <<"validate", "build", "http", "decode", "status", "parse">>

\* the last stage that has run
LastStage == stages[Len(stages)]

\* the failure of the invocation is one the stage s returns
FailureOfStage(s) ==
    CASE s = "validate" -> err \in {Sentinel(ErrMissingDomains),
                                    Sentinel(ErrMaxDomainsExceeded)}
      [] s = "build"    -> err.prefix \in {"failed to build request URL",
                                           "failed to create request"}
      [] s = "http"     -> err.prefix = "HTTP request failed"
      [] s = "decode"   -> err.prefix = "failed to decode XML response"
      [] s = "status"   -> err.is = ErrAPIError /\ err.prefix = ErrAPIError
      [] OTHER          -> FALSE

\* C28: the stages that have run are always an initial part of validate,
\* build, http, decode, status, parse; a stage runs only when the stages
\* before it did not fail; a call that returns an error returns the error of
\* the last stage that ran, and a call that returns results ran all six; an
\* empty domain list fails in validation whatever the endpoint; parse runs
\* only on an envelope with Status "OK"; a returned call has either results
\* and no error or an error and nil results.
C28_StageOrder ==
    /\ Len(stages) <= Len(StageOrder)
    /\ stages = SubSeq(StageOrder, 1, Len(stages))
    /\ (Len(stages) >= 2 => ValidateDomains(domains) = "")
    /\ (Len(stages) >= 3 =>
          /\ buildRequestURL(service.config, service.config.Endpoint,
                             Join(domains, 1)).ok
          /\ urlParse(reqURL).ok)
    /\ (Len(stages) >= 4 => resp /= NoResponse)
    /\ (Len(stages) >= 5 => Decode(resp.Body).ok)
    /\ (Len(stages) >= 6 => apiResp.Status = "OK")
    /\ (Returned /\ err /= NoError =>
          /\ resultsNil /\ results = <<>>
          /\ Len(stages) < Len(StageOrder)
          /\ FailureOfStage(LastStage))
    /\ (Returned /\ err = NoError => ~resultsNil /\ stages = StageOrder)
    /\ (Returned /\ domains = <<>> =>
          FailedWith(Sentinel(ErrMissingDomains)) /\ stages = <<"validate">>)

C28_Witness ==
    /\ Returned
    /\ domains = <<>>
    /\ service.config.Endpoint = InvalidEndpoint
    /\ FailedWith(Sentinel(ErrMissingDomains))
    /\ stages = <<"validate">>
    /\ httpCount = 0

\* what the stages after client.Do make of a response body
BodyOutcome(body) ==
    IF ~Decode(body).ok
    THEN [results |-> <<>>, resultsNil |-> TRUE,
          err |-> Wrap("failed to decode XML response", Sentinel(Decode(body).cause))]
    ELSE IF Decode(body).apiResp.Status /= "OK"
    THEN [results |-> <<>>, resultsNil |-> TRUE,
          err |-> APIErrorOf(Decode(body).apiResp)]
    ELSE [results |-> parseResults(Decode(body).apiResp.DomainCheckResults),
          resultsNil |-> FALSE, err |-> NoError]

\* C29: what a call returns after it has received a response is determined
\* by the response body alone, whatever the status code: a response with
\* status code 500 and a well-formed envelope with Status "OK" returns the
\* mapped results without error, as the same body with status code 200 does.
C29_StatusCodeIgnored ==
    (Returned /\ resp /= NoResponse) =>
        /\ [results |-> results, resultsNil |-> resultsNil, err |-> err]
              = BodyOutcome(resp.Body)
        /\ (Decode(resp.Body).ok /\ Decode(resp.Body).apiResp.Status = "OK"
              => Succeeded)

C29_Witness ==
    /\ Succeeded
    /\ resp.StatusCode = 500
    /\ Len(results) = 2
    /\ apiResp.Status = "OK"

\* C30: a call that has received a response keeps the body open until it
\* returns and has closed it exactly once when it has returned, after a
\* decode failure, an upstream error or success; a call that received no
\* response never closes a body.
C30_BodyClosedOnce ==
    /\ (resp /= NoResponse /\ ~Returned => bodyOpen /\ closeCount = 0)
    /\ (resp /= NoResponse /\ Returned => ~bodyOpen /\ closeCount = 1)
    /\ (resp = NoResponse => ~bodyOpen /\ closeCount = 0)

C30_Witness ==
    /\ Returned
    /\ err.prefix = "failed to decode XML response"
    /\ resp /= NoResponse
    /\ closeCount = 1
    /\ ~bodyOpen


====
